---- MODULE Spec2Model ----
(***************************************************************************)
(* RenoTracker: the relational state (users, projects, rooms, tasks,       *)
(* expenses, documents, document_tasks), the form handlers of app/main.py  *)
(* that change it, and the admin bootstrap of app/seed.py.                 *)
(*                                                                         *)
(* A form string is a sequence of text atoms; the atom " " is whitespace.  *)
(* A row holds the mapped columns the handlers read or decide on; the      *)
(* pass-through columns (floor, notes, vendor, priority, created_at,       *)
(* updated_at, ...) take no part in any branch and are left out.           *)
(***************************************************************************)
EXTENDS Integers, Sequences, FiniteSets, TLC

VARIABLES users, projects, rooms, tasks, expenses, documents, document_tasks,
          objects, nextId, now, session, resp, req, reqs, env

tables == <<users, projects, rooms, tasks, expenses, documents, document_tasks>>
vars == <<users, projects, rooms, tasks, expenses, documents, document_tasks,
          objects, nextId, now, session, resp, req, reqs, env>>

(* ------------------------------ bounds --------------------------------- *)
MaxProjects == 2
MaxRooms == 2
MaxRequests == 2
MaxTasks == 1
MaxExpenses == 1
MaxDocuments == 1
MaxRecords == 1
MaxTime == 3

(* ------------------------------ values --------------------------------- *)
\* Python None for an id column, and the empty form string.
NoId == <<"none", 0>>
Blank == <<>>
NoTime == 0

\* uuid4(): the n-th identifier drawn for a table.
Id(kind, n) == <<kind, n>>

(* ------------------------------ strings -------------------------------- *)
RECURSIVE lstrip(_)
lstrip(v) == IF v # <<>> /\ Head(v) = " " THEN lstrip(Tail(v)) ELSE v

RECURSIVE rstrip(_)
rstrip(v) == IF v # <<>> /\ v[Len(v)] = " " THEN rstrip(SubSeq(v, 1, Len(v) - 1)) ELSE v

\* _clean_str: (v or "").strip()
_clean_str(v) == rstrip(lstrip(v))

\* str.lower() on one atom of text.
lower_atom(a) ==
    CASE a = "Kitchen" -> "kitchen"
      [] a = "KITCHEN" -> "kitchen"
      [] a = "Hall" -> "hall"
      [] a = "Done" -> "done"
      [] a = "DONE" -> "done"
      [] a = "Doing" -> "doing"
      [] a = "Photo" -> "photo"
      [] a = "AFTER" -> "after"
      [] a = "Admin@Home" -> "admin@home"
      [] a = "Admin@Local" -> "admin@local"
      [] OTHER -> a

\* str.lower()
lower(v) == [i \in DOMAIN v |-> lower_atom(v[i])]

(* ------------------------------ database ------------------------------- *)
Has(table, id) == \E r \in table : r.id = id
Row(table, id) == CHOOSE r \in table : r.id = id
Ids(table) == {r.id : r \in table}

\* The constraints the schema declares: uq_room_project_name compares names
\* as stored; every foreign key names an existing row or is NULL.
fk_ok(ref, table) == ref = NoId \/ Has(table, ref)

uq_room_project_name(R) ==
    \A a, b \in R : (a.project_id = b.project_id /\ a.name = b.name) => a.id = b.id

constraints_ok(R, T, E, D, L) ==
    /\ uq_room_project_name(R)
    /\ \A r \in R : Has(projects, r.project_id)
    /\ \A t \in T : Has(projects, t.project_id) /\ fk_ok(t.room_id, R)
    /\ \A e \in E : Has(projects, e.project_id) /\ fk_ok(e.room_id, R) /\ fk_ok(e.task_id, T)
    /\ \A d \in D : Has(projects, d.project_id) /\ fk_ok(d.room_id, R) /\ fk_ok(d.expense_id, E)
    /\ \A l \in L : Has(D, l.document_id) /\ Has(T, l.task_id)
    /\ \A a, b \in L : (a.document_id = b.document_id /\ a.task_id = b.task_id) => a = b

\* _is_unique_violation on the IntegrityError a failed commit raises.
_is_unique_violation(R) == ~uq_room_project_name(R)

(* ------------------------------ requests ------------------------------- *)
\* The request being answered: its route, the id in its path and the form
\* field the route decides on.
Request(op, id, arg) == [op |-> op, id |-> id, arg |-> arg]

(* ------------------------------ responses ------------------------------ *)
_redirect(op, url) == [op |-> op, status |-> 303, url |-> url]
Respond(r) == resp' = r

(* ------------------------------ auth ----------------------------------- *)
\* get_current_user: the session's user_id resolved against the users table.
has_current_user == session # NoId /\ Has(users, session)
get_current_user == Row(users, session)

\* The guard with the test of the active project dropped.
require_user_only == IF ~has_current_user THEN "/login" ELSE ""

\* _require_user_and_project, with runtime_redirect_handler: "" when the
\* handler may go on, else the target of the 303.
_require_user_and_project ==
    IF ~has_current_user THEN "/login"
    ELSE IF get_current_user.active_project_id = NoId THEN "/projects"
    ELSE ""

active_project_id == get_current_user.active_project_id

(* ------------------------------ credentials ---------------------------- *)
\* security.hash_password / verify_password: an opaque digest of the
\* plaintext, and the check of a plaintext against it.
hash_password(p) == <<"digest", p>>
verify_password(p, h) == h = hash_password(p)

(* ------------------------------ login ---------------------------------- *)
\* A login that skips the password check.
login_post_unchecked(email, password) ==
    LET found == {u \in users : u.email = _clean_str(lower(email))}
    IN  /\ req' = Request("login_post", NoId, email)
        /\ IF found # {}
           THEN /\ session' = (CHOOSE u \in found : TRUE).id
                /\ Respond(_redirect("login_post", "/dashboard"))
           ELSE /\ session' = session
                /\ Respond([op |-> "login_post", status |-> 401, url |-> "login.html"])
        /\ UNCHANGED <<tables, objects, nextId, now, reqs, env>>

\* POST /login
login_post(email, password) ==
    LET e == lower(email)
        found == {u \in users : u.email = _clean_str(e)}
    IN  /\ req' = Request("login_post", NoId, email)
        /\ IF found # {} /\ verify_password(password, (CHOOSE u \in found : TRUE).password_hash)
           THEN /\ session' = (CHOOSE u \in found : TRUE).id
                /\ Respond(_redirect("login_post", "/dashboard"))
           ELSE /\ session' = session
                /\ Respond([op |-> "login_post", status |-> 401, url |-> "login.html"])
        /\ UNCHANGED <<tables, objects, nextId, now, reqs, env>>

\* POST /logout
logout_post ==
    /\ req' = Request("logout_post", NoId, Blank)
    /\ session' = NoId
    /\ Respond(_redirect("logout_post", "/login"))
    /\ UNCHANGED <<tables, objects, nextId, now, reqs, env>>

(* ------------------------------ projects ------------------------------- *)
set_active(uid, pid) ==
    {IF u.id = uid THEN [u EXCEPT !.active_project_id = pid] ELSE u : u \in users}

\* POST /projects/create
projects_create(name) ==
    /\ req' = Request("projects_create", NoId, name)
    /\ nextId.project <= MaxProjects
    /\ IF ~has_current_user
       THEN /\ Respond(_redirect("projects_create", "/login"))
            /\ UNCHANGED <<tables, nextId>>
       ELSE LET p == [id |-> Id("project", nextId.project), name |-> _clean_str(name),
                      is_archived |-> FALSE]
            IN  /\ projects' = projects \cup {p}
                /\ users' = set_active(session, p.id)
                /\ nextId' = [nextId EXCEPT !.project = @ + 1]
                /\ Respond(_redirect("projects_create", "/dashboard"))
                /\ UNCHANGED <<rooms, tasks, expenses, documents, document_tasks>>
    /\ UNCHANGED <<objects, now, session, reqs, env>>

\* POST /projects/{project_id}/set-active
projects_set_active(project_id) ==
    /\ req' = Request("projects_set_active", project_id, Blank)
    /\ IF ~has_current_user
       THEN /\ Respond(_redirect("projects_set_active", "/login"))
            /\ UNCHANGED tables
       ELSE IF ~Has(projects, project_id) \/ Row(projects, project_id).is_archived
       THEN /\ Respond(_redirect("projects_set_active", "/projects"))
            /\ UNCHANGED tables
       ELSE /\ users' = set_active(session, project_id)
            /\ Respond(_redirect("projects_set_active", "/dashboard"))
            /\ UNCHANGED <<projects, rooms, tasks, expenses, documents, document_tasks>>
    /\ UNCHANGED <<objects, nextId, now, session, reqs, env>>

(* ------------------------------ rooms ---------------------------------- *)
\* The pre-check with the func.lower() calls dropped.
room_name_taken_exact(project_id, room_name, self) ==
    \E r \in rooms : /\ r.project_id = project_id
                     /\ r.name = room_name
                     /\ r.id # self

\* The pre-check query of rooms_create and rooms_update: a room of the
\* project whose lower(name) equals room_name.lower(), other than `self`.
room_name_taken(project_id, room_name, self) ==
    \E r \in rooms : /\ r.project_id = project_id
                     /\ lower(r.name) = lower(room_name)
                     /\ r.id # self

\* rooms_create up to the pre-check: "" when the insert may go on, else the
\* redirect that ends the request.
rooms_create_check(name) ==
    IF _require_user_and_project # "" THEN _require_user_and_project
    ELSE IF _clean_str(name) = Blank THEN "/rooms?err=missing_name"
    ELSE IF room_name_taken(active_project_id, _clean_str(name), NoId) THEN "/rooms?err=duplicate"
    ELSE ""

\* rooms_create from db.add(r) on: the commit, and the rollback when the
\* database refuses the row.
rooms_create_commit(project_id, room_name) ==
    LET r == [id |-> Id("room", nextId.room), project_id |-> project_id, name |-> room_name]
        R == rooms \cup {r}
    IN  IF constraints_ok(R, tasks, expenses, documents, document_tasks)
        THEN /\ rooms' = R
             /\ nextId' = [nextId EXCEPT !.room = @ + 1]
             /\ Respond(_redirect("rooms_create", "/rooms"))
        ELSE /\ UNCHANGED <<rooms, nextId>>
             /\ Respond(_redirect("rooms_create",
                    IF _is_unique_violation(R) THEN "/rooms?err=duplicate"
                    ELSE "/rooms?err=save_failed"))

\* POST /rooms/create
rooms_create(name) ==
    /\ req' = Request("rooms_create", NoId, name)
    /\ rooms_create_check(name) = "" => nextId.room <= MaxRooms
    /\ IF rooms_create_check(name) # ""
       THEN /\ Respond(_redirect("rooms_create", rooms_create_check(name)))
            /\ UNCHANGED <<rooms, nextId>>
       ELSE rooms_create_commit(active_project_id, _clean_str(name))
    /\ UNCHANGED <<users, projects, tasks, expenses, documents, document_tasks,
                   objects, now, session, reqs, env>>

\* The ownership test without the comparison of project ids.
owned_exists(table, id) == Has(table, id)

\* db.get(X, id) and the ownership test every update/delete starts with.
owned(table, id) ==
    Has(table, id) /\ Row(table, id).project_id = active_project_id

\* POST /rooms/{room_id}/update
rooms_update(room_id, name) ==
    /\ req' = Request("rooms_update", room_id, name)
    /\ IF _require_user_and_project # ""
       THEN /\ Respond(_redirect("rooms_update", _require_user_and_project))
            /\ UNCHANGED rooms
       ELSE IF ~owned(rooms, room_id)
       THEN /\ Respond(_redirect("rooms_update", "/rooms"))
            /\ UNCHANGED rooms
       ELSE IF _clean_str(name) = Blank
       THEN /\ Respond(_redirect("rooms_update", "/rooms?err=missing_name"))
            /\ UNCHANGED rooms
       ELSE IF room_name_taken(active_project_id, _clean_str(name), room_id)
       THEN /\ Respond(_redirect("rooms_update", "/rooms?err=duplicate"))
            /\ UNCHANGED rooms
       ELSE LET R == {IF r.id = room_id THEN [r EXCEPT !.name = _clean_str(name)] ELSE r
                      : r \in rooms}
            IN  IF constraints_ok(R, tasks, expenses, documents, document_tasks)
                THEN /\ rooms' = R
                     /\ Respond(_redirect("rooms_update", "/rooms"))
                ELSE /\ UNCHANGED rooms
                     /\ Respond(_redirect("rooms_update", "/rooms?err=save_failed"))
    /\ UNCHANGED <<users, projects, tasks, expenses, documents, document_tasks,
                   objects, nextId, now, session, reqs, env>>

\* The bulk UPDATE ... SET col = NULL of the delete handlers: rows of the
\* project whose column `col` names `id`.
unlink(table, project_id, col, id) ==
    {IF r.project_id = project_id /\ r[col] = id THEN [r EXCEPT ![col] = NoId] ELSE r
     : r \in table}

\* POST /rooms/{room_id}/delete
rooms_delete(room_id) ==
    /\ req' = Request("rooms_delete", room_id, Blank)
    /\ IF _require_user_and_project # ""
       THEN /\ Respond(_redirect("rooms_delete", _require_user_and_project))
            /\ UNCHANGED <<rooms, tasks, expenses, documents>>
       ELSE IF ~owned(rooms, room_id)
       THEN /\ Respond(_redirect("rooms_delete", "/rooms"))
            /\ UNCHANGED <<rooms, tasks, expenses, documents>>
       ELSE LET T == unlink(tasks, active_project_id, "room_id", room_id)
                E == unlink(expenses, active_project_id, "room_id", room_id)
                D == unlink(documents, active_project_id, "room_id", room_id)
                R == {r \in rooms : r.id # room_id}
            IN  IF constraints_ok(R, T, E, D, document_tasks)
                THEN /\ rooms' = R /\ tasks' = T /\ expenses' = E /\ documents' = D
                     /\ Respond(_redirect("rooms_delete", "/rooms"))
                ELSE /\ UNCHANGED <<rooms, tasks, expenses, documents>>
                     /\ Respond(_redirect("rooms_delete", "/rooms?err=delete_failed"))
    /\ UNCHANGED <<users, projects, document_tasks, objects, nextId, now, session, reqs, env>>


(* ------------------------------ parsing -------------------------------- *)
\* date.fromisoformat: the text atoms that are ISO calendar dates.
IsoDates == {"2024-03-01", "2024-03-31"}
is_iso_date(v) == Len(v) = 1 /\ v[1] \in IsoDates

(* ------------------------------ tasks ---------------------------------- *)
TaskStatuses == {<<"todo">>, <<"doing">>, <<"blocked">>, <<"done">>}

\* An unhandled exception: the plain 500 of the server, nothing committed.
server_error(op) == [op |-> op, status |-> 500, url |-> ""]

\* POST /tasks/create
tasks_create(title, room_id, due_date) ==
    /\ req' = Request("tasks_create", room_id, title)
    /\ nextId.task <= MaxTasks
    /\ IF _require_user_and_project # ""
       THEN /\ Respond(_redirect("tasks_create", _require_user_and_project))
            /\ UNCHANGED <<tasks, nextId>>
       ELSE IF _clean_str(due_date) # Blank /\ ~is_iso_date(due_date)
       THEN /\ Respond(server_error("tasks_create"))
            /\ UNCHANGED <<tasks, nextId>>
       ELSE LET t == [id |-> Id("task", nextId.task), project_id |-> active_project_id,
                      room_id |-> room_id, title |-> _clean_str(title),
                      due_date |-> _clean_str(due_date),
                      status |-> <<"todo">>, completed_at |-> NoTime]
                T == tasks \cup {t}
            IN  IF constraints_ok(rooms, T, expenses, documents, document_tasks)
                THEN /\ tasks' = T
                     /\ nextId' = [nextId EXCEPT !.task = @ + 1]
                     /\ Respond(_redirect("tasks_create", "/tasks"))
                ELSE /\ UNCHANGED <<tasks, nextId>>
                     /\ Respond(_redirect("tasks_create", "/tasks?err=save_failed"))
    /\ UNCHANGED <<users, projects, rooms, expenses, documents, document_tasks,
                   objects, now, session, reqs, env>>

\* set_status with the "and not t.completed_at" test dropped.
set_status_overwrite(t, st) ==
    [t EXCEPT !.status = st, !.completed_at = IF st = <<"done">> THEN now ELSE NoTime]

\* set_status with the clearing of completed_at dropped.
set_status_no_clear(t, st) ==
    [t EXCEPT !.status = st,
              !.completed_at = IF st = <<"done">> /\ @ = NoTime THEN now ELSE @]

\* t.status = st, then completed_at set on "done" if not yet set, and
\* cleared on any other status.
set_status(t, st) ==
    LET t1 == [t EXCEPT !.status = st]
        t2 == IF st = <<"done">> /\ t1.completed_at = NoTime
              THEN [t1 EXCEPT !.completed_at = now] ELSE t1
    IN  IF st # <<"done">> THEN [t2 EXCEPT !.completed_at = NoTime] ELSE t2

\* POST /tasks/{task_id}/move
tasks_move(task_id, status) ==
    /\ req' = Request("tasks_move", task_id, status)
    /\ IF _require_user_and_project # ""
       THEN /\ Respond(_redirect("tasks_move", _require_user_and_project))
            /\ UNCHANGED tasks
       ELSE IF ~owned(tasks, task_id)
       THEN /\ Respond(_redirect("tasks_move", "/tasks"))
            /\ UNCHANGED tasks
       ELSE IF lower(_clean_str(status)) \notin TaskStatuses
       THEN /\ Respond(_redirect("tasks_move", "/tasks"))
            /\ UNCHANGED tasks
       ELSE /\ tasks' = {IF t.id = task_id THEN set_status(t, lower(_clean_str(status))) ELSE t
                         : t \in tasks}
            /\ Respond(_redirect("tasks_move", "/tasks"))
    /\ UNCHANGED <<users, projects, rooms, expenses, documents, document_tasks,
                   objects, nextId, now, session, reqs, env>>

\* POST /tasks/{task_id}/update
tasks_update(task_id, title, room_id, due_date, status) ==
    /\ req' = Request("tasks_update", task_id, status)
    /\ IF _require_user_and_project # ""
       THEN /\ Respond(_redirect("tasks_update", _require_user_and_project))
            /\ UNCHANGED tasks
       ELSE IF ~owned(tasks, task_id)
       THEN /\ Respond(_redirect("tasks_update", "/tasks"))
            /\ UNCHANGED tasks
       ELSE IF _clean_str(title) = Blank
       THEN /\ Respond(_redirect("tasks_update", "/tasks?err=missing_title"))
            /\ UNCHANGED tasks
       ELSE IF _clean_str(due_date) # Blank /\ ~is_iso_date(due_date)
       THEN /\ Respond(server_error("tasks_update"))
            /\ UNCHANGED tasks
       ELSE LET st == lower(_clean_str(status))
                upd(t) == LET t1 == [t EXCEPT !.title = _clean_str(title), !.room_id = room_id,
                                              !.due_date = _clean_str(due_date)]
                          IN  IF st \in TaskStatuses THEN set_status(t1, st) ELSE t1
                T == {IF t.id = task_id THEN upd(t) ELSE t : t \in tasks}
            IN  IF constraints_ok(rooms, T, expenses, documents, document_tasks)
                THEN /\ tasks' = T
                     /\ Respond(_redirect("tasks_update", "/tasks"))
                ELSE /\ UNCHANGED tasks
                     /\ Respond(_redirect("tasks_update", "/tasks?err=save_failed"))
    /\ UNCHANGED <<users, projects, rooms, expenses, documents, document_tasks,
                   objects, nextId, now, session, reqs, env>>

\* POST /tasks/{task_id}/delete
tasks_delete(task_id) ==
    /\ req' = Request("tasks_delete", task_id, Blank)
    /\ IF _require_user_and_project # ""
       THEN /\ Respond(_redirect("tasks_delete", _require_user_and_project))
            /\ UNCHANGED <<tasks, expenses, document_tasks>>
       ELSE IF ~owned(tasks, task_id)
       THEN /\ Respond(_redirect("tasks_delete", "/tasks"))
            /\ UNCHANGED <<tasks, expenses, document_tasks>>
       ELSE LET L == {l \in document_tasks : l.task_id # task_id}
                E == unlink(expenses, active_project_id, "task_id", task_id)
                T == {t \in tasks : t.id # task_id}
            IN  IF constraints_ok(rooms, T, E, documents, L)
                THEN /\ tasks' = T /\ expenses' = E /\ document_tasks' = L
                     /\ Respond(_redirect("tasks_delete", "/tasks"))
                ELSE /\ UNCHANGED <<tasks, expenses, document_tasks>>
                     /\ Respond(_redirect("tasks_delete", "/tasks?err=delete_failed"))
    /\ UNCHANGED <<users, projects, rooms, documents, objects, nextId, now, session, reqs, env>>

(* ------------------------------ expenses ------------------------------- *)
\* Decimal(text): the amounts of the model, in thousandths of a pound.
\* Text that is no number raises.
DecimalText == {"120.00", "20.00", "20.005"}
is_decimal(v) == Len(_clean_str(v)) = 1 /\ _clean_str(v)[1] \in DecimalText
Decimal(v) ==
    LET d == _clean_str(v)[1]
    IN  CASE d = "120.00" -> 120000
          [] d = "20.00" -> 20000
          [] d = "20.005" -> 20005

\* An absent amount (None) and a present one.
NoAmount == <<>>
Amount(x) == <<x>>

\* A NUMERIC(12, 2) column keeps two decimals, rounding half away from zero.
numeric_12_2(a) ==
    IF a = NoAmount THEN NoAmount
    ELSE LET x == a[1]
             m == IF x >= 0 THEN x ELSE -x
             r == ((m + 5) \div 10) * 10
         IN  Amount(IF x >= 0 THEN r ELSE -r)

\* The parse of the form of expenses_create / expenses_update: FALSE when
\* date.fromisoformat or Decimal raises.
expense_form_ok(purchase_date, gross_amount, vat_amount) ==
    /\ is_iso_date(purchase_date)
    /\ is_decimal(gross_amount)
    /\ _clean_str(vat_amount) = Blank \/ is_decimal(vat_amount)

\* gross, va and net as the handlers compute them, as stored.
expense_amounts(gross_amount, vat_amount) ==
    LET gross == Decimal(gross_amount)
        va == IF _clean_str(vat_amount) # Blank THEN Amount(Decimal(vat_amount)) ELSE NoAmount
        net == IF va # NoAmount THEN Amount(gross - va[1]) ELSE NoAmount
    IN  [gross_amount |-> numeric_12_2(Amount(gross)), vat_amount |-> numeric_12_2(va),
         net_amount |-> numeric_12_2(net)]

\* POST /expenses/create
expenses_create(purchase_date, gross_amount, room_id, task_id, vat_amount) ==
    /\ req' = Request("expenses_create", room_id, vat_amount)
    /\ nextId.expense <= MaxExpenses
    /\ IF _require_user_and_project # ""
       THEN /\ Respond(_redirect("expenses_create", _require_user_and_project))
            /\ UNCHANGED <<expenses, nextId>>
       ELSE IF ~expense_form_ok(purchase_date, gross_amount, vat_amount)
       THEN /\ Respond(server_error("expenses_create"))
            /\ UNCHANGED <<expenses, nextId>>
       ELSE LET a == expense_amounts(gross_amount, vat_amount)
                e == [id |-> Id("expense", nextId.expense), project_id |-> active_project_id,
                      room_id |-> room_id, task_id |-> task_id,
                      purchase_date |-> purchase_date,
                      gross_amount |-> a.gross_amount, vat_amount |-> a.vat_amount,
                      net_amount |-> a.net_amount]
                E == expenses \cup {e}
            IN  IF constraints_ok(rooms, tasks, E, documents, document_tasks)
                THEN /\ expenses' = E
                     /\ nextId' = [nextId EXCEPT !.expense = @ + 1]
                     /\ Respond(_redirect("expenses_create", "/expenses"))
                ELSE /\ UNCHANGED <<expenses, nextId>>
                     /\ Respond(_redirect("expenses_create", "/expenses?err=save_failed"))
    /\ UNCHANGED <<users, projects, rooms, tasks, documents, document_tasks,
                   objects, now, session, reqs, env>>

\* POST /expenses/{expense_id}/update
expenses_update(expense_id, purchase_date, gross_amount, room_id, task_id, vat_amount) ==
    /\ req' = Request("expenses_update", expense_id, vat_amount)
    /\ IF _require_user_and_project # ""
       THEN /\ Respond(_redirect("expenses_update", _require_user_and_project))
            /\ UNCHANGED expenses
       ELSE IF ~owned(expenses, expense_id)
       THEN /\ Respond(_redirect("expenses_update", "/expenses"))
            /\ UNCHANGED expenses
       ELSE IF ~expense_form_ok(purchase_date, gross_amount, vat_amount)
       THEN /\ Respond(_redirect("expenses_update", "/expenses?err=save_failed"))
            /\ UNCHANGED expenses
       ELSE LET a == expense_amounts(gross_amount, vat_amount)
                E == {IF e.id = expense_id
                      THEN [e EXCEPT !.purchase_date = purchase_date,
                                     !.gross_amount = a.gross_amount,
                                     !.room_id = room_id, !.task_id = task_id,
                                     !.vat_amount = a.vat_amount, !.net_amount = a.net_amount]
                      ELSE e : e \in expenses}
            IN  IF constraints_ok(rooms, tasks, E, documents, document_tasks)
                THEN /\ expenses' = E
                     /\ Respond(_redirect("expenses_update", "/expenses"))
                ELSE /\ UNCHANGED expenses
                     /\ Respond(_redirect("expenses_update", "/expenses?err=save_failed"))
    /\ UNCHANGED <<users, projects, rooms, tasks, documents, document_tasks,
                   objects, nextId, now, session, reqs, env>>

\* POST /expenses/{expense_id}/delete
expenses_delete(expense_id) ==
    /\ req' = Request("expenses_delete", expense_id, Blank)
    /\ IF _require_user_and_project # ""
       THEN /\ Respond(_redirect("expenses_delete", _require_user_and_project))
            /\ UNCHANGED <<expenses, documents>>
       ELSE IF ~owned(expenses, expense_id)
       THEN /\ Respond(_redirect("expenses_delete", "/expenses"))
            /\ UNCHANGED <<expenses, documents>>
       ELSE LET D == unlink(documents, active_project_id, "expense_id", expense_id)
                E == {e \in expenses : e.id # expense_id}
            IN  IF constraints_ok(rooms, tasks, E, D, document_tasks)
                THEN /\ expenses' = E /\ documents' = D
                     /\ Respond(_redirect("expenses_delete", "/expenses"))
                ELSE /\ UNCHANGED <<expenses, documents>>
                     /\ Respond(_redirect("expenses_delete", "/expenses?err=delete_failed"))
    /\ UNCHANGED <<users, projects, rooms, tasks, document_tasks,
                   objects, nextId, now, session, reqs, env>>

(* ------------------------------ object store --------------------------- *)
\* Settings: the environment with the defaults of config.py.
\* os.getenv(name, default): the default only when the variable is not set.
Unset == "<unset>"
setting(name, default) == IF env[name] = Unset THEN default ELSE env[name]

\* str.rstrip("/") on the endpoint values of the model.
rstrip_slash(v) ==
    CASE v = "/" -> ""
      [] v = "http://minio:9000/" -> "http://minio:9000"
      [] OTHER -> v

minio_endpoint == rstrip_slash(setting("MINIO_ENDPOINT", "http://minio:9000"))
minio_access_key == setting("MINIO_ACCESS_KEY", "")
minio_secret_key == setting("MINIO_SECRET_KEY", "")
minio_bucket == setting("MINIO_BUCKET", "renovation")

\* s3_enabled without the test of the bucket name.
s3_enabled_any_bucket ==
    minio_endpoint # "" /\ minio_access_key # "" /\ minio_secret_key # ""

s3_enabled ==
    minio_endpoint # "" /\ minio_access_key # "" /\ minio_secret_key # "" /\ minio_bucket # ""

(* ------------------------------ documents ------------------------------ *)
DocTypes == {<<"receipt">>, <<"photo">>, <<"warranty">>, <<"paperwork">>, <<"recipe">>}
PhotoGroups == {<<"before">>, <<"during">>, <<"after">>}
NoGroup == <<"None">>

_norm_doc_type(v) ==
    LET x == IF lower(_clean_str(v)) = Blank THEN <<"receipt">> ELSE lower(_clean_str(v))
    IN  IF x \notin DocTypes THEN <<"receipt">> ELSE x

\* _norm_photo_group without the test of the document type.
_norm_photo_group_any_type(doc_type, v) ==
    LET pg == IF lower(_clean_str(v)) = Blank THEN <<"before">> ELSE lower(_clean_str(v))
    IN  IF pg \notin PhotoGroups THEN <<"before">> ELSE pg

_norm_photo_group(doc_type, v) ==
    IF doc_type # <<"photo">> THEN NoGroup
    ELSE LET pg == IF lower(_clean_str(v)) = Blank THEN <<"before">> ELSE lower(_clean_str(v))
         IN  IF pg \notin PhotoGroups THEN <<"before">> ELSE pg

\* _parse_task_ids: blanks dropped, duplicates dropped, order kept.
RECURSIVE _parse_task_ids(_)
_parse_task_ids(task_ids) ==
    IF task_ids = <<>> THEN <<>>
    ELSE LET front == _parse_task_ids(SubSeq(task_ids, 1, Len(task_ids) - 1))
             x == task_ids[Len(task_ids)]
         IN  IF x = NoId \/ \E i \in DOMAIN front : front[i] = x THEN front
             ELSE Append(front, x)

Elems(q) == {q[i] : i \in DOMAIN q}

\* The loops with the test of the task's project dropped.
new_links_any_project(d, tids) ==
    {[document_id |-> d, task_id |-> tid, created_at |-> now] :
        tid \in {x \in tids : Has(tasks, x)}}

\* The links the upload and update loops add for document d: one for each
\* requested id that names a task of the active project.
new_links(d, tids) ==
    {[document_id |-> d, task_id |-> tid, created_at |-> now] :
        tid \in {x \in tids : Has(tasks, x) /\ Row(tasks, x).project_id = active_project_id}}

\* The reconciliation with every link of the document deleted and the
\* requested ones inserted again.
reconcile_links_recreate(doc_id, new_task_ids) ==
    {l \in document_tasks : l.document_id # doc_id} \cup new_links(doc_id, new_task_ids)

\* The links after documents_update: those of the document no longer asked
\* for are deleted, those newly asked for are added.
reconcile_links(doc_id, new_task_ids) ==
    LET existing_ids == {l.task_id : l \in {x \in document_tasks : x.document_id = doc_id}}
        to_remove == existing_ids \ new_task_ids
        to_add == new_task_ids \ existing_ids
    IN  {l \in document_tasks : ~(l.document_id = doc_id /\ l.task_id \in to_remove)}
            \cup new_links(doc_id, to_add)

\* upload_bytes that never reaches the store.
upload_bytes_skipped(key) == objects

\* upload_bytes with put_object accepted: the objects of the bucket after
\* the call; nothing is sent when the store is not configured.
upload_bytes(key) == IF s3_enabled THEN objects \cup {key} ELSE objects

\* upload_bytes with the store refusing put_object: the exception leaves the
\* handler as a 500.
put_failed(op) == [op |-> op, status |-> 500, url |-> "put_object"]

\* POST /documents, POST /documents/upload.  put_ok: whether the object
\* store takes the put_object call.
documents_upload(doc_type, photo_group, room_id, expense_id, task_ids, put_ok) ==
    /\ req' = Request("documents_upload", room_id, doc_type)
    /\ nextId.document <= MaxDocuments
    /\ IF _require_user_and_project # ""
       THEN /\ Respond(_redirect("documents_upload", _require_user_and_project))
            /\ UNCHANGED <<documents, document_tasks, objects, nextId>>
       ELSE IF s3_enabled /\ ~put_ok
       THEN /\ Respond(put_failed("documents_upload"))
            /\ UNCHANGED <<documents, document_tasks, objects, nextId>>
       ELSE LET key == <<active_project_id, nextId.document>>
                d == [id |-> Id("document", nextId.document), project_id |-> active_project_id,
                      room_id |-> room_id, expense_id |-> expense_id,
                      doc_type |-> _norm_doc_type(doc_type),
                      photo_group |-> _norm_photo_group(_norm_doc_type(doc_type), photo_group),
                      s3_key |-> key]
                D == documents \cup {d}
            IN  /\ objects' = upload_bytes(key)
                /\ IF constraints_ok(rooms, tasks, expenses, D, document_tasks)
                   THEN /\ documents' = D
                        /\ document_tasks' = document_tasks
                               \cup new_links(d.id, Elems(_parse_task_ids(task_ids)))
                        /\ nextId' = [nextId EXCEPT !.document = @ + 1]
                        /\ Respond(_redirect("documents_upload", "/documents"))
                   ELSE /\ UNCHANGED <<documents, document_tasks, nextId>>
                        /\ Respond(server_error("documents_upload"))
    /\ UNCHANGED <<users, projects, rooms, tasks, expenses, now, session, reqs, env>>

\* POST /documents/{doc_id}/update
documents_update(doc_id, doc_type, photo_group, room_id, expense_id, task_ids) ==
    /\ req' = Request("documents_update", doc_id, doc_type)
    /\ IF _require_user_and_project # ""
       THEN /\ Respond(_redirect("documents_update", _require_user_and_project))
            /\ UNCHANGED <<documents, document_tasks>>
       ELSE IF ~owned(documents, doc_id)
       THEN /\ Respond(_redirect("documents_update", "/documents"))
            /\ UNCHANGED <<documents, document_tasks>>
       ELSE LET D == {IF d.id = doc_id
                      THEN [d EXCEPT !.doc_type = _norm_doc_type(doc_type),
                                     !.photo_group =
                                         _norm_photo_group(_norm_doc_type(doc_type), photo_group),
                                     !.room_id = room_id, !.expense_id = expense_id]
                      ELSE d : d \in documents}
                L == reconcile_links(doc_id, Elems(_parse_task_ids(task_ids)))
            IN  IF constraints_ok(rooms, tasks, expenses, D, L)
                THEN /\ documents' = D /\ document_tasks' = L
                     /\ Respond(_redirect("documents_update", "/documents"))
                ELSE /\ UNCHANGED <<documents, document_tasks>>
                     /\ Respond(server_error("documents_update"))
    /\ UNCHANGED <<users, projects, rooms, tasks, expenses,
                   objects, nextId, now, session, reqs, env>>

\* POST /documents/{doc_id}/delete: the row, and with it the rows of the
\* secondary table of Document.tasks.
documents_delete(doc_id) ==
    /\ req' = Request("documents_delete", doc_id, Blank)
    /\ IF _require_user_and_project # ""
       THEN /\ Respond(_redirect("documents_delete", _require_user_and_project))
            /\ UNCHANGED <<documents, document_tasks>>
       ELSE IF ~owned(documents, doc_id)
       THEN /\ Respond(_redirect("documents_delete", "/documents"))
            /\ UNCHANGED <<documents, document_tasks>>
       ELSE /\ documents' = {d \in documents : d.id # doc_id}
            /\ document_tasks' = {l \in document_tasks : l.document_id # doc_id}
            /\ Respond(_redirect("documents_delete", "/documents"))
    /\ UNCHANGED <<users, projects, rooms, tasks, expenses,
                   objects, nextId, now, session, reqs, env>>

\* The clock utcnow() reads moves on between requests.
Tick ==
    /\ now < MaxTime
    /\ now' = now + 1
    /\ UNCHANGED <<tables, objects, nextId, session, resp, req, reqs, env>>


\* A worker with no request in hand.
Idle == [pc |-> "idle"]

(* ------------------------------ initial state -------------------------- *)
\* The environment ensure_admin_user reads (ADMIN_EMAIL, ADMIN_PASSWORD,
\* ADMIN_NAME, ADMIN_UPDATE) and the object-store settings of Settings, all
\* unset: each reader applies its own default.
DefaultEnv == [ADMIN_EMAIL |-> Blank, ADMIN_PASSWORD |-> "", ADMIN_NAME |-> "",
               ADMIN_UPDATE |-> Blank,
               MINIO_ENDPOINT |-> Unset, MINIO_ACCESS_KEY |-> Unset,
               MINIO_SECRET_KEY |-> Unset, MINIO_BUCKET |-> Unset]

AdminUser == [id |-> Id("user", 1), email |-> <<"admin@local">>,
              password_hash |-> hash_password("admin"), active_project_id |-> NoId]

\* A started application over a database that holds the "admin@local" user
\* row: nobody is logged in, no project has been created yet.
InitApp ==
    /\ users = {AdminUser}
    /\ projects = {} /\ rooms = {} /\ tasks = {} /\ expenses = {}
    /\ documents = {} /\ document_tasks = {}
    /\ objects = {}
    /\ nextId = [project |-> 1, room |-> 1, task |-> 1, expense |-> 1, document |-> 1]
    /\ now = 1
    /\ session = NoId
    /\ resp = [op |-> "startup", status |-> 200, url |-> ""]
    /\ req = Request("startup", NoId, Blank)
    /\ reqs = [w \in 1..MaxRequests |-> Idle]
    /\ env = DefaultEnv

(* ------------------------------ inputs --------------------------------- *)
LoginInputs == {<<<<" ", "Admin@Local">>, "admin">>, <<<<"admin@local">>, "wrong">>}
ProjectIdInputs == {Id("project", n) : n \in 1..MaxProjects}
RoomNameInputs == {<<"Kitchen">>, <<" ", "kitchen", " ">>, <<"Hall">>, <<" ">>}
RoomIdInputs == {Id("room", n) : n \in 1..MaxRooms}

(* ------------------------------ rooms, one request at a time ----------- *)
NextRooms ==
    \/ \E c \in LoginInputs : login_post(c[1], c[2])
    \/ projects_create(<<"House">>)
    \/ \E p \in ProjectIdInputs : projects_set_active(p)
    \/ \E n \in RoomNameInputs : rooms_create(n)
    \/ \E r \in RoomIdInputs, n \in RoomNameInputs : rooms_update(r, n)
    \/ \E r \in RoomIdInputs : rooms_delete(r)

SpecRooms == InitApp /\ [][NextRooms]_vars

\* Rooms of one project whose names are equal ignoring case.
same_name(a, b) == a.project_id = b.project_id /\ lower(a.name) = lower(b.name)


\* C1: one request at a time, no two rooms of a project have names equal
\* ignoring case: a create, or an update of another room, whose trimmed name
\* equals ignoring case the name of a room of the active project is answered
\* with the redirect /rooms?err=duplicate and changes no table; a name taken
\* only in another project is accepted.
C1_Unique == \A a, b \in rooms : same_name(a, b) => a.id = b.id

C1_CreateStep ==
    \A n \in RoomNameInputs :
        (rooms_create(n) /\ _require_user_and_project = "" /\ _clean_str(n) # Blank) =>
            IF \E r \in rooms : /\ r.project_id = active_project_id
                                /\ lower(r.name) = lower(_clean_str(n))
            THEN resp'.url = "/rooms?err=duplicate" /\ UNCHANGED tables
            ELSE /\ resp'.url = "/rooms"
                 /\ \E r \in rooms' \ rooms : /\ r.project_id = active_project_id
                                              /\ r.name = _clean_str(n)
                                              /\ rooms' = rooms \cup {r}

C1_UpdateStep ==
    \A i \in RoomIdInputs, n \in RoomNameInputs :
        (rooms_update(i, n) /\ _require_user_and_project = "" /\ owned(rooms, i)
            /\ _clean_str(n) # Blank) =>
            IF \E r \in rooms : /\ r.project_id = active_project_id
                                /\ lower(r.name) = lower(_clean_str(n))
                                /\ r.id # i
            THEN resp'.url = "/rooms?err=duplicate" /\ UNCHANGED tables
            ELSE resp'.url = "/rooms" /\ Row(rooms', i).name = _clean_str(n)

C1_RoomNamesUniquePerProject ==
    [](C1_Unique) /\ [][C1_CreateStep /\ C1_UpdateStep]_vars

\* A name held by a room of each project, just after a duplicate was refused.
C1_Witness ==
    /\ \E a, b \in rooms : a.project_id # b.project_id /\ a.name = b.name
    /\ resp.url = "/rooms?err=duplicate"


(* ------------------------------ rooms, overlapping requests ------------ *)
\* Worker w takes a POST /rooms/create up to the pre-check query: each
\* request has its own database session and sees the committed rows.
rooms_create_begin(w, name) ==
    /\ req' = Request("rooms_create", NoId, name)
    /\ reqs[w].pc = "idle"
    /\ nextId.room + Cardinality({x \in DOMAIN reqs : reqs[x].pc = "checked"}) <= MaxRooms
    /\ IF rooms_create_check(name) # ""
       THEN /\ Respond(_redirect("rooms_create", rooms_create_check(name)))
            /\ UNCHANGED reqs
       ELSE /\ reqs' = [reqs EXCEPT ![w] = [pc |-> "checked",
                                            project_id |-> active_project_id,
                                            room_name |-> _clean_str(name)]]
            /\ UNCHANGED resp
    /\ UNCHANGED <<tables, objects, nextId, now, session, env>>

\* Worker w finishes its request: db.add(r), db.commit() and the handlers
\* of a refused commit.
rooms_create_end(w) ==
    /\ reqs[w].pc = "checked"
    /\ req' = Request("rooms_create", NoId, reqs[w].room_name)
    /\ rooms_create_commit(reqs[w].project_id, reqs[w].room_name)
    /\ reqs' = [reqs EXCEPT ![w] = Idle]
    /\ UNCHANGED <<users, projects, tasks, expenses, documents, document_tasks,
                   objects, now, session, env>>

RaceNameInputs == {<<"Kitchen">>, <<"kitchen">>, <<"Hall">>}

NextRace ==
    \/ login_post(<<"admin@local">>, "admin")
    \/ projects_create(<<"House">>)
    \/ \E p \in ProjectIdInputs : projects_set_active(p)
    \/ \E w \in 1..MaxRequests, n \in RaceNameInputs : rooms_create_begin(w, n)
    \/ \E w \in 1..MaxRequests : rooms_create_end(w)
    \/ \E r \in RoomIdInputs : rooms_delete(r)

SpecRace == InitApp /\ [][NextRace]_vars

\* C2: when two creates for one project, with names equal ignoring case,
\* have both passed the pre-check, the commit of the second is refused by
\* the unique constraint: it is redirected to /rooms?err=duplicate, no row
\* is added, and the project never holds two rooms with that name.
C2_LoserStep ==
    \A w \in 1..MaxRequests :
        (rooms_create_end(w) /\ room_name_taken(reqs[w].project_id, reqs[w].room_name, NoId)) =>
            resp'.url = "/rooms?err=duplicate" /\ rooms' = rooms

C2_ConstraintRejectsLoser ==
    [](\A a, b \in rooms : same_name(a, b) => a.id = b.id) /\ [][C2_LoserStep]_vars

\* Two rooms of one project whose names differ only in case.
C2_Witness ==
    \E a, b \in rooms : a.id # b.id /\ same_name(a, b) /\ a.name # b.name


(* ------------------------------ the task board ------------------------- *)
TitleInputs == {<<"Paint">>, <<" ">>}
DueDateInputs == {Blank, <<"someday">>}
StatusInputs == {<<"done">>, <<" ", "DONE">>, <<"Doing">>, <<"later">>, Blank}
TaskIdInputs == {Id("task", n) : n \in 1..MaxTasks}

NextTasks ==
    \/ login_post(<<"admin@local">>, "admin")
    \/ projects_create(<<"House">>)
    \/ \E t \in TitleInputs, d \in DueDateInputs : tasks_create(t, NoId, d)
    \/ \E i \in TaskIdInputs, st \in StatusInputs : tasks_move(i, st)
    \/ \E i \in TaskIdInputs, t \in TitleInputs, st \in StatusInputs :
           tasks_update(i, t, NoId, Blank, st)
    \/ \E i \in TaskIdInputs : tasks_delete(i)
    \/ Tick

SpecTasks == InitApp /\ [][NextTasks]_vars


\* C5: a task has a completed-at timestamp exactly when its status is
\* "done": a new task is "todo" with none, a move or update into "done"
\* sets it to the current time, and one to todo, doing or blocked clears it.
C5_Inv == \A t \in tasks : (t.completed_at # NoTime) <=> (t.status = <<"done">>)

C5_Step ==
    /\ \A t \in tasks' : ~Has(tasks, t.id) => t.status = <<"todo">> /\ t.completed_at = NoTime
    /\ \A t \in tasks : Has(tasks', t.id) =>
         LET u == Row(tasks', t.id)
         IN  /\ (t.status # <<"done">> /\ u.status = <<"done">>) => u.completed_at = now
             /\ (u.status # <<"done">>) => u.completed_at = NoTime

C5_CompletedAtIffDone == [](C5_Inv) /\ [][C5_Step]_vars

\* A task just taken out of "done" by a move, its timestamp cleared.
C5_Witness ==
    /\ req.op = "tasks_move" /\ lower(_clean_str(req.arg)) = <<"doing">>
    /\ \E t \in tasks : t.id = req.id /\ t.status = <<"doing">> /\ t.completed_at = NoTime
    /\ now > 1

\* C6: a move or update to "done" of a task that is already "done" leaves
\* completed-at as it was; the timestamp of a task changes only in a step
\* that takes the task into or out of "done".
C6_Step ==
    \A t \in tasks : Has(tasks', t.id) =>
        LET u == Row(tasks', t.id)
        IN  (t.status = <<"done">> /\ u.status = <<"done">>) => u.completed_at = t.completed_at

C6_DoneIsIdempotent == [][C6_Step]_vars

\* A "done" request answered for a task completed at an earlier time.
C6_Witness ==
    /\ req.op \in {"tasks_move", "tasks_update"}
    /\ lower(_clean_str(req.arg)) = <<"done">>
    /\ resp.url = "/tasks"
    /\ \E t \in tasks : t.id = req.id /\ t.status = <<"done">> /\ t.completed_at < now


(* ------------------------------ references between records ------------- *)
RoomRefInputs == {NoId} \cup RoomIdInputs
TaskRefInputs == {NoId} \cup TaskIdInputs
ExpenseIdInputs == {Id("expense", n) : n \in 1..MaxExpenses}
ExpenseRefInputs == {NoId} \cup ExpenseIdInputs
DocumentIdInputs == {Id("document", n) : n \in 1..MaxDocuments}
TaskIdsInputs == {<<>>} \cup {<<i, NoId, i>> : i \in TaskIdInputs}

NextRefs ==
    \/ login_post(<<"admin@local">>, "admin")
    \/ projects_create(<<"House">>)
    \/ \E p \in ProjectIdInputs : projects_set_active(p)
    \/ rooms_create(<<"Kitchen">>)
    \/ \E r \in RoomIdInputs : rooms_delete(r)
    \/ \E r \in RoomRefInputs : tasks_create(<<"Paint">>, r, Blank)
    \/ \E i \in TaskIdInputs : tasks_delete(i)
    \/ \E r \in RoomRefInputs, t \in TaskRefInputs :
           expenses_create(<<"2024-03-01">>, <<"120.00">>, r, t, Blank)
    \/ \E r \in RoomRefInputs, e \in ExpenseRefInputs, ts \in TaskIdsInputs :
           documents_upload(<<"receipt">>, Blank, r, e, ts, TRUE)

SpecRefs == InitApp /\ [][NextRefs]_vars


(* ------------------------------ records of another project ------------- *)
\* The rooms, tasks, expenses and documents created so far.
Created == (nextId.room - 1) + (nextId.task - 1) + (nextId.expense - 1) + (nextId.document - 1)

NextOwn ==
    \/ login_post(<<"admin@local">>, "admin")
    \/ projects_create(<<"House">>)
    \/ \E p \in ProjectIdInputs : projects_set_active(p)
    \/ /\ Created < MaxRecords
       /\ \/ rooms_create(<<"Kitchen">>)
          \/ tasks_create(<<"Paint">>, NoId, Blank)
          \/ expenses_create(<<"2024-03-01">>, <<"120.00">>, NoId, NoId, Blank)
          \/ documents_upload(<<"receipt">>, Blank, NoId, NoId, <<>>, TRUE)
    \/ \E r \in RoomIdInputs : rooms_update(r, <<"Hall">>)
    \/ \E r \in RoomIdInputs : rooms_delete(r)
    \/ \E i \in TaskIdInputs : tasks_move(i, <<"done">>)
    \/ \E i \in TaskIdInputs : tasks_update(i, <<"Sand">>, NoId, Blank, Blank)
    \/ \E i \in TaskIdInputs : tasks_delete(i)
    \/ \E i \in ExpenseIdInputs :
           expenses_update(i, <<"2024-03-01">>, <<"20.00">>, NoId, NoId, Blank)
    \/ \E i \in ExpenseIdInputs : expenses_delete(i)
    \/ \E i \in DocumentIdInputs : documents_update(i, <<"photo">>, Blank, NoId, NoId, <<>>)
    \/ \E i \in DocumentIdInputs : documents_delete(i)

SpecOwn == InitApp /\ [][NextOwn]_vars


\* A row of `table` with this id is not there, or belongs to a project
\* other than the user's active one.
Missing(table, id) == ~Has(table, id)
Foreign(table, id) == Has(table, id) /\ Row(table, id).project_id # active_project_id

\* C3: for a user with active project A, an update, move or delete naming a
\* room, task, expense or document of another project B is answered as one
\* naming no row at all: a 303 to the listing page of the entity, and no row
\* of any table created, modified or deleted.
C3_Outcome(listing) ==
    resp'.status = 303 /\ resp'.url = listing /\ UNCHANGED <<tables, objects>>

C3_Step ==
    LET op == req'.op
        id == req'.id
    IN  _require_user_and_project = "" =>
          /\ (op \in {"rooms_update", "rooms_delete"}
                /\ (Foreign(rooms, id) \/ Missing(rooms, id))) => C3_Outcome("/rooms")
          /\ (op \in {"tasks_move", "tasks_update", "tasks_delete"}
                /\ (Foreign(tasks, id) \/ Missing(tasks, id))) => C3_Outcome("/tasks")
          /\ (op \in {"expenses_update", "expenses_delete"}
                /\ (Foreign(expenses, id) \/ Missing(expenses, id))) => C3_Outcome("/expenses")
          /\ (op \in {"documents_update", "documents_delete"}
                /\ (Foreign(documents, id) \/ Missing(documents, id)))
                    => C3_Outcome("/documents")

C3_OtherProjectIsNotFound == [][C3_Step]_vars

\* An update of an expense of another project, just answered.
C3_Witness ==
    /\ req.op = "expenses_update"
    /\ _require_user_and_project = ""
    /\ Foreign(expenses, req.id)
    /\ resp = _redirect("expenses_update", "/expenses")

\* C4: every room reference of a task, expense or document, every task
\* reference of an expense and every expense reference of a document names
\* a record of the project of the record that holds it.
in_project(ref, table, project_id) ==
    ref # NoId => Has(table, ref) /\ Row(table, ref).project_id = project_id

C4_ReferencesStayInProject ==
    /\ \A t \in tasks : in_project(t.room_id, rooms, t.project_id)
    /\ \A e \in expenses : /\ in_project(e.room_id, rooms, e.project_id)
                           /\ in_project(e.task_id, tasks, e.project_id)
    /\ \A d \in documents : /\ in_project(d.room_id, rooms, d.project_id)
                            /\ in_project(d.expense_id, expenses, d.project_id)

\* C7: deleting a room of the active project removes the room; every task,
\* expense and document that referenced it is still there with no room
\* reference; no task, expense or document is deleted and none references
\* the deleted room.
cleared(before, after, col, id) ==
    /\ Ids(after) = Ids(before)
    /\ \A r \in before : r[col] = id => Row(after, r.id)[col] = NoId
    /\ \A r \in after : r[col] # id

C7_Step ==
    (req'.op = "rooms_delete" /\ _require_user_and_project = ""
        /\ Has(rooms, req'.id) /\ Row(rooms, req'.id).project_id = active_project_id) =>
        /\ ~Has(rooms', req'.id)
        /\ cleared(tasks, tasks', "room_id", req'.id)
        /\ cleared(expenses, expenses', "room_id", req'.id)
        /\ cleared(documents, documents', "room_id", req'.id)

C7_RoomDeleteUnlinks == [][C7_Step]_vars

\* C8: deleting a task of the active project removes the task and every
\* document-task link naming it; every expense that referenced it is still
\* there with no task reference; no expense or document is deleted.
C8_Step ==
    (req'.op = "tasks_delete" /\ _require_user_and_project = ""
        /\ Has(tasks, req'.id) /\ Row(tasks, req'.id).project_id = active_project_id) =>
        /\ ~Has(tasks', req'.id)
        /\ \A l \in document_tasks' : l.task_id # req'.id
        /\ cleared(expenses, expenses', "task_id", req'.id)
        /\ Ids(documents') = Ids(documents)

C8_TaskDeleteUnlinks == [][C8_Step]_vars


(* ------------------------------ admin bootstrap ------------------------ *)
\* The mapped columns of models.User.
UserColumns == {"id", "email", "password_hash", "active_project_id",
                "created_at", "updated_at"}

\* The declarative constructor User(**kwargs) accepts mapped attributes only.
constructor_ok(kwargs) == DOMAIN kwargs \subseteq UserColumns

\* users.id is a primary key without a default: a row needs a value for it.
insert_ok(row) == "id" \in DOMAIN row

\* obj.name = value on a Python object.
setattr(obj, name, value) ==
    [c \in DOMAIN obj \cup {name} |-> IF c = name THEN value ELSE obj[c]]

\* What a commit writes of an object: its mapped columns.
persist(obj) == [c \in DOMAIN obj \cap UserColumns |-> obj[c]]

desired_email ==
    lower(_clean_str(IF env.ADMIN_EMAIL = Blank THEN <<"admin@local">> ELSE env.ADMIN_EMAIL))
desired_password == IF env.ADMIN_PASSWORD = "" THEN "admin" ELSE env.ADMIN_PASSWORD
desired_name == IF env.ADMIN_NAME = "" THEN "Admin" ELSE env.ADMIN_NAME
do_update ==
    _clean_str(IF env.ADMIN_UPDATE = Blank THEN <<"0">> ELSE env.ADMIN_UPDATE) = <<"1">>

\* ensure_admin_user: the users table after the call, and whether it raised.
ensure_admin_user ==
    LET user == {u \in users : u.email = desired_email}
        default_user == {u \in users : u.email = <<"admin@local">>}
        kwargs == [email |-> desired_email,
                   password_hash |-> hash_password(desired_password),
                   display_name |-> desired_name]
        migrated(d) == setattr(setattr(setattr(d, "email", desired_email),
                                       "display_name", desired_name),
                               "password_hash", hash_password(desired_password))
        updated(u) == setattr(setattr(u, "display_name", desired_name),
                              "password_hash", hash_password(desired_password))
    IN  IF user = {} /\ default_user = {}
        THEN IF constructor_ok(kwargs) /\ insert_ok(kwargs)
             THEN [users |-> users \cup {persist(kwargs)}, raised |-> FALSE]
             ELSE [users |-> users, raised |-> TRUE]
        ELSE IF user = {} /\ default_user # {} /\ do_update
        THEN LET d == CHOOSE u \in default_user : TRUE
             IN  [users |-> (users \ {d}) \cup {persist(migrated(d))}, raised |-> FALSE]
        ELSE IF user # {} /\ do_update
        THEN LET u == CHOOSE x \in user : TRUE
             IN  [users |-> (users \ {u}) \cup {persist(updated(u))}, raised |-> FALSE]
        ELSE [users |-> users, raised |-> FALSE]

\* The startup event: the schema and bucket steps leave the modelled tables
\* alone; an exception of ensure_admin_user leaves the event.
startup ==
    /\ req' = Request("startup", NoId, Blank)
    /\ users' = ensure_admin_user.users
    /\ Respond(IF ensure_admin_user.raised
               THEN server_error("startup")
               ELSE [op |-> "startup", status |-> 200, url |-> ""])
    /\ UNCHANGED <<projects, rooms, tasks, expenses, documents, document_tasks,
                   objects, nextId, now, session, reqs, env>>

\* The operator sets a variable of the process environment between starts.
configure(name, value) ==
    /\ req' = Request("configure", NoId, <<name>>)
    /\ env' = [env EXCEPT ![name] = value]
    /\ UNCHANGED <<tables, objects, nextId, now, session, resp, reqs>>

AdminEmailInputs == {Blank, <<" ", "Admin@Home", " ">>, <<"admin@local">>}
AdminPasswordInputs == {"", "secret"}
AdminNameInputs == {"", "Jon"}
AdminUpdateInputs == {Blank, <<"1", " ">>, <<"0">>}
SeedLoginInputs == {<<<<"admin@local">>, "admin">>, <<<<"Admin@Home">>, "secret">>}

\* Before a start: a new database, or one that holds the "admin@local" row.
InitSeed ==
    /\ users \in {{}, {AdminUser}}
    /\ projects = {} /\ rooms = {} /\ tasks = {} /\ expenses = {}
    /\ documents = {} /\ document_tasks = {}
    /\ objects = {}
    /\ nextId = [project |-> 1, room |-> 1, task |-> 1, expense |-> 1, document |-> 1]
    /\ now = 1
    /\ session = NoId
    /\ resp = [op |-> "boot", status |-> 0, url |-> ""]
    /\ req = Request("boot", NoId, Blank)
    /\ reqs = [w \in 1..MaxRequests |-> Idle]
    /\ env = DefaultEnv

NextSeed ==
    \/ startup
    \/ \E v \in AdminEmailInputs : configure("ADMIN_EMAIL", v)
    \/ \E v \in AdminPasswordInputs : configure("ADMIN_PASSWORD", v)
    \/ \E v \in AdminNameInputs : configure("ADMIN_NAME", v)
    \/ \E v \in AdminUpdateInputs : configure("ADMIN_UPDATE", v)
    \/ \E c \in SeedLoginInputs : login_post(c[1], c[2])

SpecSeed == InitSeed /\ [][NextSeed]_vars

\* C9: from an empty users table, two starts in a row under one
\* configuration with the reconciliation flag off leave exactly one user
\* row, whose email is the configured email trimmed and lowercased, and the
\* second start leaves that row as it is.
C9_First ==
    (req'.op = "startup" /\ users = {} /\ ~do_update) =>
        \E u \in users' : users' = {u} /\ u.email = desired_email

C9_Second ==
    (req'.op = "startup" /\ req.op = "startup" /\ ~do_update
        /\ \E u \in users : users = {u} /\ u.email = desired_email) =>
        users' = users

C9_BootstrapIsIdempotent == [][C9_First /\ C9_Second]_vars

\* C10: when the users table holds only the "admin@local" row and a start
\* runs with another desired email and the reconciliation flag on, that row
\* has its email, name and password hash set to the desired values and the
\* table still holds one row.
C10_Step ==
    (req'.op = "startup" /\ do_update /\ desired_email # <<"admin@local">>
        /\ \E d \in users : users = {d} /\ d.email = <<"admin@local">>) =>
        \E u \in users' :
            /\ users' = {u}
            /\ u.id = (CHOOSE d \in users : TRUE).id
            /\ u.email = desired_email
            /\ u.password_hash = hash_password(desired_password)
            /\ "display_name" \in DOMAIN u
            /\ u.display_name = desired_name

C10_MigrationUpdatesTheRow == [][C10_Step]_vars


\* C11: once the users table holds the admin user, a start with the
\* reconciliation flag off ignores the configured admin email, password and
\* name: the start goes through and no user row is added, removed or
\* modified.
C11_Step ==
    (req'.op = "startup" /\ ~do_update /\ users # {}) =>
        /\ users' = users
        /\ resp' = [op |-> "startup", status |-> 200, url |-> ""]

page(op, template) == [op |-> op, status |-> 200, url |-> template]

\* The GET listing routes: the guard, then queries and the template.
listing(op, template) ==
    /\ req' = Request(op, NoId, Blank)
    /\ Respond(IF _require_user_and_project # ""
               THEN _redirect(op, _require_user_and_project)
               ELSE page(op, template))
    /\ UNCHANGED <<tables, objects, nextId, now, session, reqs, env>>

\* GET /rooms, GET /expenses, GET /tasks, GET /documents
rooms_list == listing("rooms_list", "rooms.html")
expenses_list == listing("expenses_list", "expenses.html")
tasks_board == listing("tasks_board", "tasks.html")
documents_page == listing("documents", "documents.html")

\* presigned_get_url: the URL signed for the key, or the RuntimeError raised
\* when the store is not configured.
presigned_get_url(key) ==
    IF ~s3_enabled THEN [raised |-> TRUE, value |-> <<"S3/MinIO not configured">>]
    ELSE [raised |-> FALSE, value |-> <<"presigned", key>>]

\* The 302 to the signed URL; runtime_redirect_handler turns the
\* RuntimeError into a plain 500 with its message.
presigned_response(op, key) ==
    [op |-> op, status |-> IF presigned_get_url(key).raised THEN 500 ELSE 302,
     url |-> presigned_get_url(key).value]

\* GET /documents/{doc_id}/download and GET /documents/{doc_id}/preview
presigned_route(op, doc_id) ==
    /\ req' = Request(op, doc_id, Blank)
    /\ Respond(IF _require_user_and_project # ""
               THEN _redirect(op, _require_user_and_project)
               ELSE IF ~owned(documents, doc_id) THEN _redirect(op, "/documents")
               ELSE presigned_response(op, Row(documents, doc_id).s3_key))
    /\ UNCHANGED <<tables, objects, nextId, now, session, reqs, env>>

documents_download(doc_id) == presigned_route("documents_download", doc_id)
documents_preview(doc_id) == presigned_route("documents_preview", doc_id)

(* ------------------------------ every project-scoped route ------------- *)
NextAuth ==
    \/ \E c \in LoginInputs : login_post(c[1], c[2])
    \/ logout_post
    \/ projects_create(<<"House">>)
    \/ \E p \in ProjectIdInputs : projects_set_active(p)
    \/ rooms_list
    \/ expenses_list
    \/ tasks_board
    \/ documents_page
    \/ \E i \in DocumentIdInputs : documents_download(i)
    \/ \E i \in DocumentIdInputs : documents_preview(i)
    \/ /\ Created < MaxRecords
       /\ \/ rooms_create(<<"Kitchen">>)
          \/ tasks_create(<<"Paint">>, NoId, Blank)
          \/ expenses_create(<<"2024-03-01">>, <<"120.00">>, NoId, NoId, Blank)
          \/ documents_upload(<<"receipt">>, Blank, NoId, NoId, <<>>, TRUE)
    \/ \E r \in RoomIdInputs : rooms_update(r, <<"Hall">>)
    \/ \E r \in RoomIdInputs : rooms_delete(r)
    \/ \E i \in TaskIdInputs : tasks_move(i, <<"done">>)
    \/ \E i \in TaskIdInputs : tasks_update(i, <<"Sand">>, NoId, Blank, Blank)
    \/ \E i \in TaskIdInputs : tasks_delete(i)
    \/ \E i \in ExpenseIdInputs :
           expenses_update(i, <<"2024-03-01">>, <<"20.00">>, NoId, NoId, Blank)
    \/ \E i \in ExpenseIdInputs : expenses_delete(i)
    \/ \E i \in DocumentIdInputs : documents_update(i, <<"photo">>, Blank, NoId, NoId, <<>>)
    \/ \E i \in DocumentIdInputs : documents_delete(i)

SpecAuth == InitApp /\ [][NextAuth]_vars

ProjectScopedRoutes ==
    {"rooms_list", "rooms_create", "rooms_update", "rooms_delete",
     "expenses_list", "expenses_create", "expenses_update", "expenses_delete",
     "tasks_board", "tasks_create", "tasks_move", "tasks_update", "tasks_delete",
     "documents", "documents_upload", "documents_update", "documents_delete",
     "documents_download", "documents_preview"}

\* C12: a request to a project-scoped route (rooms, expenses, tasks,
\* documents; reads and writes) is answered with a 303 to /login when the
\* session names no existing user, and with a 303 to /projects when the user
\* has no active project; in both cases no row and no stored object is
\* created, modified or deleted.
C12_Step ==
    req'.op \in ProjectScopedRoutes =>
        /\ ~has_current_user =>
              /\ resp' = _redirect(req'.op, "/login")
              /\ UNCHANGED <<tables, objects>>
        /\ (has_current_user /\ get_current_user.active_project_id = NoId) =>
              /\ resp' = _redirect(req'.op, "/projects")
              /\ UNCHANGED <<tables, objects>>

C12_GuardRedirectsAndWritesNothing == [][C12_Step]_vars

\* A logged-in user without an active project was just turned away from an
\* upload.
C12_Witness ==
    /\ req.op = "documents_upload"
    /\ has_current_user /\ get_current_user.active_project_id = NoId
    /\ resp = _redirect("documents_upload", "/projects")


(* ------------------------------ upload, statement by statement --------- *)
\* An environment with the object store configured, and the default one.
StoreEnv == [DefaultEnv EXCEPT !.MINIO_ACCESS_KEY = "key", !.MINIO_SECRET_KEY = "secret"]

InitStore ==
    /\ users = {AdminUser}
    /\ projects = {} /\ rooms = {} /\ tasks = {} /\ expenses = {}
    /\ documents = {} /\ document_tasks = {}
    /\ objects = {}
    /\ nextId = [project |-> 1, room |-> 1, task |-> 1, expense |-> 1, document |-> 1]
    /\ now = 1
    /\ session = NoId
    /\ resp = [op |-> "startup", status |-> 200, url |-> ""]
    /\ req = Request("startup", NoId, Blank)
    /\ reqs = [w \in 1..MaxRequests |-> Idle]
    /\ env \in {DefaultEnv, StoreEnv}

\* The handler has not returned yet: no response so far.
in_progress(op) == [op |-> op, status |-> 0, url |-> ""]

\* Worker w runs documents_upload up to and including upload_bytes.
documents_upload_begin(w, doc_type, photo_group, room_id, expense_id, task_ids, put_ok) ==
    /\ req' = Request("documents_upload", room_id, doc_type)
    /\ reqs[w].pc = "idle"
    /\ nextId.document <= MaxDocuments
    /\ IF _require_user_and_project # ""
       THEN /\ Respond(_redirect("documents_upload", _require_user_and_project))
            /\ UNCHANGED <<objects, nextId, reqs>>
       ELSE IF s3_enabled /\ ~put_ok
       THEN /\ Respond(put_failed("documents_upload"))
            /\ UNCHANGED <<objects, nextId, reqs>>
       ELSE LET key == <<active_project_id, nextId.document>>
                d == [id |-> Id("document", nextId.document), project_id |-> active_project_id,
                      room_id |-> room_id, expense_id |-> expense_id,
                      doc_type |-> _norm_doc_type(doc_type),
                      photo_group |-> _norm_photo_group(_norm_doc_type(doc_type), photo_group),
                      s3_key |-> key]
            IN  /\ objects' = upload_bytes(key)
                /\ nextId' = [nextId EXCEPT !.document = @ + 1]
                /\ reqs' = [reqs EXCEPT ![w] = [pc |-> "stored", d |-> d,
                                                task_ids_list |-> _parse_task_ids(task_ids)]]
                /\ Respond(in_progress("documents_upload"))
    /\ UNCHANGED <<tables, now, session, env>>

\* Worker w runs db.add(d) and the first db.commit().
documents_upload_row(w) ==
    /\ reqs[w].pc = "stored"
    /\ req' = Request("documents_upload", reqs[w].d.room_id, reqs[w].d.doc_type)
    /\ IF constraints_ok(rooms, tasks, expenses, documents \cup {reqs[w].d}, document_tasks)
       THEN /\ documents' = documents \cup {reqs[w].d}
            /\ reqs' = [reqs EXCEPT ![w].pc = "row"]
            /\ Respond(in_progress("documents_upload"))
       ELSE /\ Respond(server_error("documents_upload"))
            /\ reqs' = [reqs EXCEPT ![w] = Idle]
            /\ UNCHANGED documents
    /\ UNCHANGED <<users, projects, rooms, tasks, expenses, document_tasks,
                   objects, nextId, now, session, env>>

\* Worker w runs the loop over task_ids_list, the second db.commit() and
\* the redirect.
documents_upload_links(w) ==
    /\ reqs[w].pc = "row"
    /\ req' = Request("documents_upload", reqs[w].d.room_id, reqs[w].d.doc_type)
    /\ LET L == document_tasks \cup new_links(reqs[w].d.id, Elems(reqs[w].task_ids_list))
       IN  IF constraints_ok(rooms, tasks, expenses, documents, L)
           THEN /\ document_tasks' = L
                /\ Respond(_redirect("documents_upload", "/documents"))
           ELSE /\ UNCHANGED document_tasks
                /\ Respond(server_error("documents_upload"))
    /\ reqs' = [reqs EXCEPT ![w] = Idle]
    /\ UNCHANGED <<users, projects, rooms, tasks, expenses, documents,
                   objects, nextId, now, session, env>>

UploadRoomInputs == {NoId, Id("room", 1)}

NextUpload ==
    \/ login_post(<<"admin@local">>, "admin")
    \/ projects = {} /\ projects_create(<<"House">>)
    \/ tasks_create(<<"Paint">>, NoId, Blank)
    \/ \E w \in 1..MaxRequests, r \in UploadRoomInputs, t \in TaskIdsInputs, ok \in BOOLEAN :
           documents_upload_begin(w, <<"receipt">>, Blank, r, NoId, t, ok)
    \/ \E w \in 1..MaxRequests : documents_upload_row(w)
    \/ \E w \in 1..MaxRequests : documents_upload_links(w)
    \/ \E i \in DocumentIdInputs : documents_delete(i)

SpecUpload == InitStore /\ [][NextUpload]_vars

\* C13: in an upload the bytes are written to the object store before the
\* Document row is committed, and when that write fails the request ends
\* with no Document row and no Document-Task link created.
C13_StoredFirst ==
    s3_enabled =>
        /\ \A d \in documents : d.s3_key \in objects
        /\ \A w \in DOMAIN reqs :
               reqs[w].pc = "stored" => reqs[w].d.s3_key \in objects /\ reqs[w].d \notin documents

C13_FailedWrite ==
    (req'.op = "documents_upload" /\ resp' = put_failed("documents_upload")) =>
        /\ UNCHANGED <<documents, document_tasks, objects, reqs>>

C13_BytesBeforeRow == [](C13_StoredFirst) /\ [][C13_FailedWrite]_vars

\* A refused put_object just ended an upload that asked for a link to an
\* existing task.
C13_Witness ==
    /\ req.op = "documents_upload"
    /\ resp = put_failed("documents_upload")
    /\ s3_enabled
    /\ tasks # {}
    /\ documents = {} /\ document_tasks = {}
    /\ \A w \in DOMAIN reqs : reqs[w] = Idle


(* ------------------------------ storage functions ---------------------- *)
\* How a call of a function of storage.py ended, and the requests it sent
\* to the store.
Outcome(op, raised, value, calls) ==
    [op |-> op, status |-> IF raised THEN "raised" ELSE "returned",
     url |-> value, calls |-> calls]

\* The bucket among the things the store holds.
Bucket == <<Id("bucket", 0), 0>>

\* ensure_bucket_exists()
ensure_bucket_exists ==
    /\ req' = Request("ensure_bucket_exists", NoId, Blank)
    /\ IF ~s3_enabled
       THEN /\ Respond(Outcome("ensure_bucket_exists", FALSE, Blank, <<>>))
            /\ UNCHANGED objects
       ELSE IF Bucket \in objects
       THEN /\ Respond(Outcome("ensure_bucket_exists", FALSE, Blank, <<"head_bucket">>))
            /\ UNCHANGED objects
       ELSE /\ Respond(Outcome("ensure_bucket_exists", FALSE, Blank,
                               <<"head_bucket", "create_bucket">>))
            /\ objects' = objects \cup {Bucket}
    /\ UNCHANGED <<tables, nextId, now, session, reqs, env>>

\* upload_bytes(key, data).  put_ok: whether the store takes put_object.
storage_upload_bytes(key, put_ok) ==
    /\ req' = Request("upload_bytes", NoId, Blank)
    /\ IF ~s3_enabled
       THEN /\ Respond(Outcome("upload_bytes", FALSE, Blank, <<>>))
            /\ UNCHANGED objects
       ELSE IF ~put_ok
       THEN /\ Respond(Outcome("upload_bytes", TRUE, <<"ClientError">>, <<"put_object">>))
            /\ UNCHANGED objects
       ELSE /\ Respond(Outcome("upload_bytes", FALSE, Blank, <<"put_object">>))
            /\ objects' = upload_bytes(key)
    /\ UNCHANGED <<tables, nextId, now, session, reqs, env>>

\* presigned_get_url(key): signing is local, nothing is sent to the store.
storage_presigned_get_url(key) ==
    /\ req' = Request("presigned_get_url", NoId, Blank)
    /\ Respond(Outcome("presigned_get_url", presigned_get_url(key).raised,
                       presigned_get_url(key).value, <<>>))
    /\ UNCHANGED <<tables, objects, nextId, now, session, reqs, env>>

EndpointInputs == {Unset, "", "/", "http://minio:9000/"}
AccessKeyInputs == {Unset, "key"}
SecretKeyInputs == {Unset, "", "secret"}
BucketInputs == {Unset, "", "reno"}
KeyInputs == {<<Id("project", 1), 1>>, <<Id("project", 1), 2>>}

InitStorage ==
    /\ users = {AdminUser}
    /\ projects = {} /\ rooms = {} /\ tasks = {} /\ expenses = {}
    /\ documents = {} /\ document_tasks = {}
    /\ objects = {}
    /\ nextId = [project |-> 1, room |-> 1, task |-> 1, expense |-> 1, document |-> 1]
    /\ now = 1
    /\ session = NoId
    /\ resp = Outcome("import", FALSE, Blank, <<>>)
    /\ req = Request("import", NoId, Blank)
    /\ reqs = [w \in 1..MaxRequests |-> Idle]
    /\ \E e \in EndpointInputs, a \in AccessKeyInputs, k \in SecretKeyInputs, b \in BucketInputs :
           env = [DefaultEnv EXCEPT !.MINIO_ENDPOINT = e, !.MINIO_ACCESS_KEY = a,
                                    !.MINIO_SECRET_KEY = k, !.MINIO_BUCKET = b]

NextStorage ==
    \/ ensure_bucket_exists
    \/ \E k \in KeyInputs, ok \in BOOLEAN : storage_upload_bytes(k, ok)
    \/ \E k \in KeyInputs : storage_presigned_get_url(k)

SpecStorage == InitStorage /\ [][NextStorage]_vars

\* The configuration of the store lacks one of its four values.
incomplete ==
    \/ minio_endpoint = "" \/ minio_access_key = ""
    \/ minio_secret_key = "" \/ minio_bucket = ""

\* C14: with an incomplete object-store configuration (endpoint, access
\* key, secret key or bucket name empty) a request for a presigned URL
\* fails with the configuration error and returns no URL, while upload_bytes
\* and ensure_bucket_exists return normally, send nothing to the store and
\* raise nothing.
C14_Step ==
    incomplete =>
        /\ req'.op = "presigned_get_url" =>
              resp' = Outcome("presigned_get_url", TRUE, <<"S3/MinIO not configured">>, <<>>)
        /\ req'.op \in {"upload_bytes", "ensure_bucket_exists"} =>
              /\ resp' = Outcome(req'.op, FALSE, Blank, <<>>)
              /\ UNCHANGED objects

C14_IncompleteConfiguration == [][C14_Step]_vars

\* Only the bucket name is empty, and a presigned URL was just refused.
C14_Witness ==
    /\ minio_endpoint # "" /\ minio_access_key # "" /\ minio_secret_key # ""
    /\ minio_bucket = ""
    /\ req.op = "presigned_get_url"
    /\ resp.status = "raised"


(* ------------------------------ failed commits ------------------------- *)
WriteRoutes ==
    {"projects_create", "projects_set_active",
     "rooms_create", "rooms_update", "rooms_delete",
     "tasks_create", "tasks_move", "tasks_update", "tasks_delete",
     "expenses_create", "expenses_update", "expenses_delete",
     "documents_upload", "documents_update", "documents_delete"}

ErrorUrls ==
    {"/rooms?err=missing_name", "/rooms?err=duplicate", "/rooms?err=save_failed",
     "/rooms?err=delete_failed", "/tasks?err=missing_title", "/tasks?err=save_failed",
     "/tasks?err=delete_failed", "/expenses?err=save_failed", "/expenses?err=delete_failed"}

\* C15: a state-changing handler (project, room, task, expense, document
\* create, update, move, delete) whose commit the database refuses answers
\* with a 303 that carries an error code and leaves every table as it was;
\* it never answers with a 500.
C15_Step ==
    req'.op \in WriteRoutes =>
        /\ resp'.status = 303
        /\ resp'.url \in ErrorUrls => UNCHANGED tables

C15_FailedCommitRedirects == [][C15_Step]_vars


\* C16: a write action is one transaction committed once, so no request
\* running next to it sees half of it: whenever the Document row of an
\* upload is in the table, the Document-Task links asked for with it (those
\* naming a task of the active project) are in the table too.
C16_UploadIsAtomic ==
    \A w \in DOMAIN reqs :
        (reqs[w].pc # "idle" /\ Has(documents, reqs[w].d.id)) =>
            \A n \in new_links(reqs[w].d.id, Elems(reqs[w].task_ids_list)) :
                \E l \in document_tasks :
                    l.document_id = n.document_id /\ l.task_id = n.task_id


(* ------------------------------ document types ------------------------- *)
DocTypeInputs == {<<"receipt">>, <<" ", "Photo">>, <<"warranty">>, <<"invoice">>, Blank}
PhotoGroupInputs == {Blank, <<"AFTER", " ">>, <<"during">>, <<"sideways">>}

NextDocs ==
    \/ login_post(<<"admin@local">>, "admin")
    \/ projects_create(<<"House">>)
    \/ \E p \in ProjectIdInputs : projects_set_active(p)
    \/ \E t \in DocTypeInputs, g \in PhotoGroupInputs :
           documents_upload(t, g, NoId, NoId, <<>>, TRUE)
    \/ \E i \in DocumentIdInputs, t \in DocTypeInputs, g \in PhotoGroupInputs :
           documents_update(i, t, g, NoId, NoId, <<>>)
    \/ \E i \in DocumentIdInputs : documents_delete(i)

SpecDocs == InitApp /\ [][NextDocs]_vars

\* C17: after any uploads and updates, whatever doc_type and photo_group
\* they were given, every Document has a type among receipt, photo,
\* warranty, paperwork, recipe, a photo group among before, during, after
\* when its type is photo, and no photo group when its type is another.
C17_TypeAndGroup ==
    \A d \in documents :
        /\ d.doc_type \in DocTypes
        /\ d.doc_type = <<"photo">> => d.photo_group \in PhotoGroups
        /\ d.doc_type # <<"photo">> => d.photo_group = NoGroup

\* A document just updated with an unknown type: stored as a receipt, with
\* no photo group.
C17_Witness ==
    /\ req.op = "documents_update"
    /\ req.arg = <<"invoice">>
    /\ resp = _redirect("documents_update", "/documents")
    /\ Has(documents, req.id)
    /\ Row(documents, req.id).doc_type = <<"receipt">>
    /\ Row(documents, req.id).photo_group = NoGroup


(* ------------------------------ expense amounts ------------------------ *)
GrossInputs == {<<"120.00">>, <<"20.00">>, <<"lots">>}
VatInputs == {Blank, <<" ">>, <<"20.00">>, <<"20.005">>}

NextExpenses ==
    \/ login_post(<<"admin@local">>, "admin")
    \/ projects_create(<<"House">>)
    \/ \E p \in ProjectIdInputs : projects_set_active(p)
    \/ \E g \in GrossInputs, v \in VatInputs :
           expenses_create(<<"2024-03-01">>, g, NoId, NoId, v)
    \/ \E i \in ExpenseIdInputs, g \in GrossInputs, v \in VatInputs :
           expenses_update(i, <<"2024-03-31">>, g, NoId, NoId, v)
    \/ \E i \in ExpenseIdInputs : expenses_delete(i)

SpecExpenses == InitApp /\ [][NextExpenses]_vars

\* C18: after any creates and updates, every Expense has a net amount equal
\* to its gross amount minus its VAT amount when it has a VAT amount, and no
\* net amount when it has no VAT amount.
C18_NetIsGrossMinusVat ==
    \A e \in expenses :
        /\ e.vat_amount # NoAmount =>
               e.net_amount = Amount(e.gross_amount[1] - e.vat_amount[1])
        /\ e.vat_amount = NoAmount => e.net_amount = NoAmount


\* C19: a create or update of a Room or Task whose name or title is blank
\* after trimming is refused with a redirect that carries an error code and
\* stores nothing; so no Room has an empty name and no Task an empty title.
C19_NoBlank ==
    /\ \A r \in rooms : r.name # Blank
    /\ \A t \in tasks : t.title # Blank

C19_CreateStep ==
    \A t \in TitleInputs, d \in DueDateInputs :
        (_require_user_and_project = "" /\ _clean_str(t) = Blank /\ tasks_create(t, NoId, d)) =>
            /\ resp' = _redirect("tasks_create", "/tasks?err=missing_title")
            /\ UNCHANGED tables

C19_BlankIsRejected == [](C19_NoBlank) /\ [][C19_CreateStep]_vars


(* ------------------------------ document links ------------------------- *)
\* Requested task ids: none, a task, a task twice with a blank, an id that
\* names no task.
NoTask == Id("task", MaxTasks + 1)
LinkIdsInputs ==
    {<<>>, <<NoTask>>} \cup {<<i, NoId, i>> : i \in TaskIdInputs}
        \cup {<<NoTask, i>> : i \in TaskIdInputs}

NextLinks ==
    \/ login_post(<<"admin@local">>, "admin")
    \/ projects_create(<<"House">>)
    \/ tasks_create(<<"Paint">>, NoId, Blank)
    \/ \E ts \in LinkIdsInputs : documents_upload(<<"receipt">>, Blank, NoId, NoId, ts, TRUE)
    \/ \E i \in DocumentIdInputs, ts \in LinkIdsInputs :
           documents_update(i, <<"receipt">>, Blank, NoId, NoId, ts)
    \/ Tick

SpecLinks == InitApp /\ [][NextLinks]_vars

links_of(L, doc_id) == {l \in L : l.document_id = doc_id}
pairs(L) == {<<l.document_id, l.task_id>> : l \in L}

\* C20: after an update of a document of the active project with requested
\* task ids R, the links of the document are the previous ones that are in
\* R, together with the ids of R not linked before that name a task of the
\* active project; a link that is kept is the same row as before, and the
\* links of every other document are as before.
C20_Step ==
    \A i \in DocumentIdInputs, ts \in LinkIdsInputs :
        (/\ req'.op = "documents_update" /\ req'.id = i
         /\ _require_user_and_project = ""
         /\ Has(documents, i) /\ Row(documents, i).project_id = active_project_id
         /\ documents_update(i, <<"receipt">>, Blank, NoId, NoId, ts)) =>
            LET R == {ts[k] : k \in DOMAIN ts} \ {NoId}
                prev == links_of(document_tasks, i)
                kept == {l \in prev : l.task_id \in R}
                added == {t \in R : /\ t \notin {l.task_id : l \in prev}
                                    /\ \E x \in tasks : x.id = t /\ x.project_id = active_project_id}
            IN  /\ pairs(links_of(document_tasks', i)) = pairs(kept) \cup {<<i, t>> : t \in added}
                /\ kept \subseteq document_tasks'
                /\ document_tasks' \ links_of(document_tasks', i) = document_tasks \ prev

PatchStatements ==
    <<"documents.photo_group", "documents.tags", "document_tasks", "expenses.vendor",
      "rooms.updated_at", "tasks.updated_at", "expenses.updated_at",
      "projects.updated_at", "documents.updated_at">>

\* The schema of a database provisioned by an older version: which of the
\* later additions it already has.
OldSchemas == SUBSET {"documents.photo_group", "documents.tags", "expenses.vendor"}

\* The steps of the startup event, in the order of its statements.
StartupSteps == <<"create_all", "ensure_schema", "ensure_bucket_exists", "ensure_admin_user">>

\* Base.metadata.create_all: creates the mapped tables that are missing and
\* leaves an existing table as it is.
create_all(schema) == schema \cup {"document_tasks"}

\* The same patcher without its try/except: the exception leaves the call.
ensure_schema_unguarded(schema, fail_at) ==
    [schema |-> IF fail_at = 0
                THEN schema \cup {PatchStatements[i] : i \in DOMAIN PatchStatements}
                ELSE schema,
     raised |-> fail_at # 0]

\* ensure_schema(): every statement runs in the one transaction of
\* engine.begin() inside one try.  fail_at = 0: no statement fails;
\* fail_at = k: opening the transaction (k = 1) or statement k raises, the
\* transaction is rolled back and the exception is dropped.
ensure_schema(schema, fail_at) ==
    [schema |-> IF fail_at = 0
                THEN schema \cup {PatchStatements[i] : i \in DOMAIN PatchStatements}
                ELSE schema,
     raised |-> FALSE]

\* The startup event at one of its statements.
Starting(step, schema, ran, patch_failed) ==
    [pc |-> step, schema |-> schema, ran |-> ran, patch_failed |-> patch_failed]

\* The event moves on to `next` after running the step it is at.
startup_goes_on(next, schema, patch_failed) ==
    /\ reqs' = [reqs EXCEPT ![1] = Starting(next, schema,
                                            Append(reqs[1].ran, reqs[1].pc), patch_failed)]
    /\ Respond(IF next = "started"
               THEN [op |-> "startup", status |-> 200, url |-> ""]
               ELSE in_progress("startup"))

\* An exception leaves the event at the step it is at: the process does not
\* come up.
startup_aborts ==
    /\ reqs' = [reqs EXCEPT ![1] = Starting("aborted", reqs[1].schema,
                                            Append(reqs[1].ran, reqs[1].pc),
                                            reqs[1].patch_failed)]
    /\ Respond(server_error("startup"))

\* Base.metadata.create_all(bind=engine).  db_ok: the database answers.
startup_create_all(db_ok) ==
    /\ reqs[1].pc = "create_all"
    /\ req' = Request("startup", NoId, <<"create_all">>)
    /\ IF db_ok
       THEN startup_goes_on("ensure_schema", create_all(reqs[1].schema), FALSE)
       ELSE startup_aborts
    /\ UNCHANGED <<tables, objects, nextId, now, session, env>>

\* ensure_schema()
startup_ensure_schema(fail_at) ==
    /\ reqs[1].pc = "ensure_schema"
    /\ req' = Request("startup", NoId, <<"ensure_schema">>)
    /\ LET r == ensure_schema(reqs[1].schema, fail_at)
       IN  IF r.raised
           THEN startup_aborts
           ELSE startup_goes_on("ensure_bucket_exists", r.schema, fail_at # 0)
    /\ UNCHANGED <<tables, objects, nextId, now, session, env>>

\* ensure_bucket_exists().  store_ok: head_bucket answers or raises
\* ClientError, and create_bucket succeeds; any other exception propagates.
startup_ensure_bucket_exists(store_ok) ==
    /\ reqs[1].pc = "ensure_bucket_exists"
    /\ req' = Request("startup", NoId, <<"ensure_bucket_exists">>)
    /\ IF ~s3_enabled
       THEN /\ startup_goes_on("ensure_admin_user", reqs[1].schema, reqs[1].patch_failed)
            /\ UNCHANGED objects
       ELSE IF ~store_ok
       THEN /\ startup_aborts
            /\ UNCHANGED objects
       ELSE /\ startup_goes_on("ensure_admin_user", reqs[1].schema, reqs[1].patch_failed)
            /\ objects' = objects \cup {Bucket}
    /\ UNCHANGED <<tables, nextId, now, session, env>>

\* ensure_admin_user(db) in try/finally: the session is closed and an
\* exception propagates.
startup_ensure_admin_user ==
    /\ reqs[1].pc = "ensure_admin_user"
    /\ req' = Request("startup", NoId, <<"ensure_admin_user">>)
    /\ users' = ensure_admin_user.users
    /\ IF ensure_admin_user.raised
       THEN startup_aborts
       ELSE startup_goes_on("started", reqs[1].schema, reqs[1].patch_failed)
    /\ UNCHANGED <<projects, rooms, tasks, expenses, documents, document_tasks,
                   objects, nextId, now, session, env>>

\* The process is started again over the same database and store.
restart ==
    /\ reqs[1].pc \in {"started", "aborted"}
    /\ req' = Request("restart", NoId, Blank)
    /\ reqs' = [reqs EXCEPT ![1] = Starting("create_all", reqs[1].schema, <<>>, FALSE)]
    /\ Respond(in_progress("startup"))
    /\ UNCHANGED <<tables, objects, nextId, now, session, env>>

\* A process about to run its startup event: over a new database or one that
\* holds the admin row, provisioned by an older or the current version, with
\* or without a configured object store.
InitStartup ==
    /\ users \in {{}, {AdminUser}}
    /\ projects = {} /\ rooms = {} /\ tasks = {} /\ expenses = {}
    /\ documents = {} /\ document_tasks = {}
    /\ objects = {}
    /\ nextId = [project |-> 1, room |-> 1, task |-> 1, expense |-> 1, document |-> 1]
    /\ now = 1
    /\ session = NoId
    /\ resp = in_progress("startup")
    /\ req = Request("boot", NoId, Blank)
    /\ \E s \in OldSchemas :
           reqs = [w \in 1..MaxRequests |->
                      IF w = 1 THEN Starting("create_all", s, <<>>, FALSE) ELSE Idle]
    /\ env \in {DefaultEnv, StoreEnv}

\* The statements of the event, which the process runs one after another.
StartupRun ==
    \/ \E db_ok \in BOOLEAN : startup_create_all(db_ok)
    \/ \E fail_at \in 0..Len(PatchStatements) : startup_ensure_schema(fail_at)
    \/ \E store_ok \in BOOLEAN : startup_ensure_bucket_exists(store_ok)
    \/ startup_ensure_admin_user

NextStartup ==
    \/ StartupRun
    \/ restart

\* The event is one sequential function: it does not stop between statements.
SpecStartup == InitStartup /\ [][NextStartup]_vars /\ WF_vars(StartupRun)

IsPrefix(a, b) == Len(a) <= Len(b) /\ \A i \in 1..Len(a) : a[i] = b[i]

\* C21: the steps of every startup run execute in the order create_all,
\* ensure_schema, ensure_bucket_exists, ensure_admin_user; whether or not a
\* statement of the schema patcher fails, the step after ensure_schema is
\* ensure_bucket_exists and no error leaves the event there, and the step
\* after a returning ensure_bucket_exists is ensure_admin_user; after a
\* patcher failure the bucket step does run.
C21_Order == IsPrefix(reqs[1].ran, StartupSteps)

C21_Step ==
    /\ reqs[1].pc = "ensure_schema" /\ reqs'[1] # reqs[1] =>
           /\ reqs'[1].pc = "ensure_bucket_exists"
           /\ resp' = in_progress("startup")
    /\ reqs[1].pc = "ensure_bucket_exists" /\ reqs'[1].pc # "aborted" /\ reqs'[1] # reqs[1] =>
           reqs'[1].pc = "ensure_admin_user"
    /\ reqs[1].pc = "ensure_admin_user" /\ reqs'[1] # reqs[1] =>
           reqs'[1].ran = StartupSteps

C21_PatcherFailureIsSwallowed ==
    /\ [](C21_Order)
    /\ [][C21_Step]_vars
    /\ (reqs[1].pc = "ensure_bucket_exists" /\ reqs[1].patch_failed)
           ~> (reqs[1].patch_failed /\ reqs[1].pc \in {"ensure_admin_user", "aborted"})

\* A start whose patcher failed has run all four steps and come up.
C21_Witness ==
    /\ reqs[1].pc = "started"
    /\ reqs[1].patch_failed
    /\ reqs[1].ran = StartupSteps
    /\ resp.status = 200


(* ------------------------------ session -------------------------------- *)
\* GET /login: the form, for anyone.
login_get ==
    /\ req' = Request("login_get", NoId, Blank)
    /\ Respond(page("login_get", "login.html"))
    /\ UNCHANGED <<tables, objects, nextId, now, session, reqs, env>>

\* The project home() falls back on: the newest one that is not archived.
newest_project ==
    LET open == {p \in projects : ~p.is_archived}
    IN  IF open = {} THEN NoId
        ELSE (CHOOSE p \in open : \A q \in open : q.id[2] <= p.id[2]).id

\* GET /
home ==
    /\ req' = Request("home", NoId, Blank)
    /\ IF ~has_current_user
       THEN /\ Respond(_redirect("home", "/login"))
            /\ UNCHANGED tables
       ELSE /\ Respond(_redirect("home", "/dashboard"))
            /\ IF active_project_id = NoId /\ newest_project # NoId
               THEN /\ users' = set_active(session, newest_project)
                    /\ UNCHANGED <<projects, rooms, tasks, expenses, documents, document_tasks>>
               ELSE UNCHANGED tables
    /\ UNCHANGED <<objects, nextId, now, session, reqs, env>>

\* GET /dashboard
dashboard ==
    /\ req' = Request("dashboard", NoId, Blank)
    /\ Respond(IF ~has_current_user THEN _redirect("dashboard", "/login")
               ELSE IF active_project_id = NoId \/ ~Has(projects, active_project_id)
               THEN _redirect("dashboard", "/projects")
               ELSE page("dashboard", "dashboard.html"))
    /\ UNCHANGED <<tables, objects, nextId, now, session, reqs, env>>

\* GET /projects
projects_list ==
    /\ req' = Request("projects_list", NoId, Blank)
    /\ Respond(IF ~has_current_user THEN _redirect("projects_list", "/login")
               ELSE page("projects_list", "projects.html"))
    /\ UNCHANGED <<tables, objects, nextId, now, session, reqs, env>>

\* Every route that asks for the current user.
AuthRoutes ==
    ProjectScopedRoutes \cup
    {"home", "dashboard", "projects_list", "projects_create", "projects_set_active"}

SessionLoginInputs == LoginInputs \cup {<<<<"nobody@local">>, "admin">>}

\* One browser session: logins, logouts and every other route.
NextSession ==
    \/ \E c \in SessionLoginInputs : login_post(c[1], c[2])
    \/ logout_post
    \/ login_get
    \/ home
    \/ dashboard
    \/ projects_list
    \/ projects_create(<<"House">>)
    \/ \E p \in ProjectIdInputs : projects_set_active(p)
    \/ rooms_list
    \/ expenses_list
    \/ tasks_board
    \/ documents_page
    \/ \E i \in DocumentIdInputs : documents_download(i)
    \/ /\ Created < MaxRecords
       /\ \/ rooms_create(<<"Kitchen">>)
          \/ tasks_create(<<"Paint">>, NoId, Blank)
          \/ documents_upload(<<"receipt">>, Blank, NoId, NoId, <<>>, TRUE)
    \/ \E r \in RoomIdInputs : rooms_delete(r)
    \/ \E i \in TaskIdInputs : tasks_move(i, <<"done">>)
    \/ \E i \in DocumentIdInputs : documents_delete(i)

SpecSession == InitApp /\ [][NextSession]_vars

\* The user a pair of credentials names: the e-mail lowercased and trimmed
\* is the e-mail of a row whose digest the password verifies against.
authenticates(email, password) ==
    {u \in users : /\ u.email = _clean_str(lower(email))
                   /\ verify_password(password, u.password_hash)}

\* C22: in one browser session the user_id entry changes only in a login
\* whose e-mail (lowercased, trimmed) names an existing user and whose
\* password verifies, which sets it to that user's id, and in a logout,
\* which removes it; a login that fails is answered 401 and leaves the
\* session as it was; while the session holds no user_id, every request to
\* a route that asks for the current user is answered with a 303 to /login
\* and the session stays without one.
C22_Step ==
    /\ session' # session =>
          \/ /\ req'.op = "login_post"
             /\ \E c \in SessionLoginInputs :
                   /\ req'.arg = c[1]
                   /\ \E u \in authenticates(c[1], c[2]) : session' = u.id
             /\ resp' = _redirect("login_post", "/dashboard")
          \/ /\ req'.op = "logout_post"
             /\ session' = NoId
    /\ req'.op = "logout_post" =>
          /\ session' = NoId
          /\ resp' = _redirect("logout_post", "/login")
    /\ \A c \in SessionLoginInputs :
          (req'.op = "login_post" /\ login_post(c[1], c[2])) =>
              IF authenticates(c[1], c[2]) = {}
              THEN /\ resp'.status = 401
                   /\ session' = session
              ELSE /\ session' \in {u.id : u \in authenticates(c[1], c[2])}
                   /\ resp' = _redirect("login_post", "/dashboard")
    /\ (req'.op \in AuthRoutes /\ session = NoId) =>
          /\ resp' = _redirect(req'.op, "/login")
          /\ session' = NoId
          /\ UNCHANGED <<tables, objects>>

C22_SessionFollowsLoginAndLogout == [][C22_Step]_vars

\* Logged out after having worked in a project, the user was just sent to
\* /login by the dashboard.
C22_Witness ==
    /\ session = NoId
    /\ projects # {}
    /\ \E u \in users : u.active_project_id # NoId
    /\ req.op = "dashboard"
    /\ resp = _redirect("dashboard", "/login")


(* ------------------------------ links across projects ------------------ *)
\* A request that names every task id there can be, and one that names no
\* task.
EveryTaskId == [i \in 1..(MaxTasks + 1) |-> Id("task", i)]

\* Uploads, updates and deletes of documents and deletes of tasks, one
\* request after another, by a user who creates projects and switches
\* between them.
NextProjects ==
    \/ login_post(<<"admin@local">>, "admin")
    \/ projects_create(<<"House">>)
    \/ \E p \in ProjectIdInputs : projects_set_active(p)
    \/ tasks_create(<<"Paint">>, NoId, Blank)
    \/ documents_upload(<<"receipt">>, Blank, NoId, NoId, EveryTaskId, TRUE)
    \/ \E i \in DocumentIdInputs, ts \in {<<>>, EveryTaskId} :
           documents_update(i, <<"receipt">>, Blank, NoId, NoId, ts)
    \/ \E i \in DocumentIdInputs : documents_delete(i)
    \/ \E i \in TaskIdInputs : tasks_delete(i)

SpecProjects == InitApp /\ [][NextProjects]_vars

\* C23: every row of document_tasks joins an existing document and an
\* existing task of the same project; an upload that names every task id,
\* those of other projects and one that names no task included, links the
\* new document to the tasks of its own project and to nothing else.
C23_SameProject ==
    \A l \in document_tasks :
        /\ Has(documents, l.document_id)
        /\ Has(tasks, l.task_id)
        /\ Row(documents, l.document_id).project_id = Row(tasks, l.task_id).project_id

C23_UploadStep ==
    (req'.op = "documents_upload" /\ documents' # documents) =>
        \A d \in documents' \ documents :
            {l.task_id : l \in links_of(document_tasks', d.id)}
                = {t.id : t \in {x \in tasks : x.project_id = d.project_id}}

C23_LinksStayInProject == [](C23_SameProject) /\ [][C23_UploadStep]_vars

\* An upload in one project named the task of another project: the document
\* is stored without a link.
C23_Witness ==
    /\ req.op = "documents_upload"
    /\ resp = _redirect("documents_upload", "/documents")
    /\ \E d \in documents, t \in tasks :
          /\ d.project_id # t.project_id
          /\ links_of(document_tasks, d.id) = {}


(* ------------------------------ task delete next to a link insert ------ *)
\* Worker w runs the loop of documents_upload over task_ids_list: db.get
\* finds the tasks of the active project and a DocumentTask is added to the
\* session for each; nothing is sent to the database yet.
documents_upload_loop(w) ==
    /\ reqs[w].pc = "row"
    /\ req' = Request("documents_upload", reqs[w].d.room_id, reqs[w].d.doc_type)
    /\ reqs' = [reqs EXCEPT ![w] =
                   [pc |-> "links", op |-> "documents_upload", d |-> reqs[w].d,
                    task_ids_list |-> reqs[w].task_ids_list, to_remove |-> {},
                    to_add |-> new_links(reqs[w].d.id, Elems(reqs[w].task_ids_list))]]
    /\ Respond(in_progress("documents_upload"))
    /\ UNCHANGED <<tables, objects, nextId, now, session, env>>

\* Worker w runs documents_update up to its db.commit(): the guard, the
\* lookup of the document, the links to remove and the DocumentTask rows
\* added to the session.
documents_update_begin(w, doc_id, task_ids) ==
    /\ reqs[w].pc = "idle"
    /\ req' = Request("documents_update", doc_id, <<"receipt">>)
    /\ IF _require_user_and_project # ""
       THEN /\ Respond(_redirect("documents_update", _require_user_and_project))
            /\ UNCHANGED reqs
       ELSE IF ~owned(documents, doc_id)
       THEN /\ Respond(_redirect("documents_update", "/documents"))
            /\ UNCHANGED reqs
       ELSE LET new_task_ids == Elems(_parse_task_ids(task_ids))
                existing_ids == {l.task_id : l \in links_of(document_tasks, doc_id)}
            IN  /\ reqs' = [reqs EXCEPT ![w] =
                               [pc |-> "links", op |-> "documents_update",
                                d |-> Row(documents, doc_id), task_ids_list |-> _parse_task_ids(task_ids),
                                to_remove |-> existing_ids \ new_task_ids,
                                to_add |-> new_links(doc_id, new_task_ids \ existing_ids)]]
                /\ Respond(in_progress("documents_update"))
    /\ UNCHANGED <<tables, objects, nextId, now, session, env>>

\* Worker w runs the db.commit() that sends the link rows, and the redirect.
\* The handlers have no try around it: an IntegrityError leaves them.
documents_links_commit(w) ==
    /\ reqs[w].pc = "links"
    /\ req' = Request(reqs[w].op, reqs[w].d.id, reqs[w].d.doc_type)
    /\ LET L == {l \in document_tasks :
                    ~(l.document_id = reqs[w].d.id /\ l.task_id \in reqs[w].to_remove)}
                \cup reqs[w].to_add
       IN  IF constraints_ok(rooms, tasks, expenses, documents, L)
           THEN /\ document_tasks' = L
                /\ Respond(_redirect(reqs[w].op, "/documents"))
           ELSE /\ UNCHANGED document_tasks
                /\ Respond(server_error(reqs[w].op))
    /\ reqs' = [reqs EXCEPT ![w] = Idle]
    /\ UNCHANGED <<users, projects, rooms, tasks, expenses, documents,
                   objects, nextId, now, session, env>>

\* Uploads and updates of documents, statement by statement, next to deletes
\* of tasks, in one project.
NextDelete ==
    \/ login_post(<<"admin@local">>, "admin")
    \/ projects = {} /\ projects_create(<<"House">>)
    \/ tasks_create(<<"Paint">>, NoId, Blank)
    \/ \E w \in 1..MaxRequests :
           documents_upload_begin(w, <<"receipt">>, Blank, NoId, NoId, EveryTaskId, TRUE)
    \/ \E w \in 1..MaxRequests : documents_upload_row(w)
    \/ \E w \in 1..MaxRequests : documents_upload_loop(w)
    \/ \E w \in 1..MaxRequests, i \in DocumentIdInputs, ts \in {<<>>, EveryTaskId} :
           documents_update_begin(w, i, ts)
    \/ \E w \in 1..MaxRequests : documents_links_commit(w)
    \/ \E i \in TaskIdInputs : tasks_delete(i)

SpecDelete == InitApp /\ [][NextDelete]_vars

\* C24: when a task is deleted between the existence check of an upload or
\* update that names it and the commit of the link, no row of document_tasks
\* references the deleted task afterwards, and neither the delete nor the
\* upload or update ends in an uncaught error (a 500).
C24_DeleteNextToLinkInsert ==
    /\ \A l \in document_tasks : Has(tasks, l.task_id)
    /\ resp.op \in {"documents_upload", "documents_update", "tasks_delete"} =>
           resp.status # 500

====
